---- MODULE Spec2Model ----
(***************************************************************************)
(* Model of the banana CLI: the Job entity (core/job.rs), the response     *)
(* interpretation and download phase of the Gemini client (api/mod.rs),    *)
(* the job store (db.rs), the configuration (config.rs), the three         *)
(* generation pipelines: batch generate (cli/commands/generate.rs), batch  *)
(* edit (cli/commands/edit.rs) and the interactive generate_image          *)
(* (tui/event_handler.rs), and the interactive session around the last:    *)
(* run and run_app (tui/mod.rs) with the key handlers of the four modes.   *)
(* Specifications: Spec (a pipeline run), DownloadSpec, EntitySpec,        *)
(* StoreSpec (the calls of db.rs), EntrySpec (a batch command from its     *)
(* arguments on), SessionSpec (a session), SharedSpec (a session beside    *)
(* other processes on the database), CycleSpec (a session cycling a        *)
(* setting).                                                               *)
(***************************************************************************)
EXTENDS Integers, Sequences, FiniteSets, TLC

VARIABLES
    kind,    \* which pipeline runs: "generate", "edit" (batch) or "tui"
    pc,      \* position of the run in its code; of a session: "loop" at the
             \* top of run_app's loop, "ended" once run has returned
    job,     \* the run's in-memory Job (`let mut job`)
    store,   \* the jobs table: job id -> stored row
    api_key, \* config.api.key, an Option
    resp,    \* Option: the GenerateResponse returned by client.generate
    err,     \* Option: the error `e` bound by the failing match arm
    result,  \* Option: what the run returned to its caller, Ok or Err(e)
    files,   \* the files written under the output directory
    app,     \* the interactive session's App, None once run has dropped it
    config_file, \* the config file on disk: its content and how often
                 \* Config::save wrote it
    counts   \* how many settings the session has applied and how many
             \* generations it has started

vars == <<kind, pc, job, store, api_key, resp, err, result, files, app,
          config_file, counts>>

----------------------------------------------------------------------------
(* Option<T>: None is the empty tuple, Some(x) the one-element tuple.       *)
None == <<>>
Some(x) == <<x>>
IsSome(o) == o # <<>>
Unwrap(o) == o[1]

(* Result<(), E>                                                            *)
Ok == [ok |-> TRUE]
Err(e) == [ok |-> FALSE, err |-> e]

----------------------------------------------------------------------------
(* Bounds and program constants.                                            *)

\* most candidates in a small response
MaxCands == 2

\* largest value of the u8 image counter and of JobImage.index
U8Max == 255

\* App::load_jobs lists at most this many rows
ListLimit == 50

\* ids the random `bn_xxxxxxxx` can come out as; the first is already stored
JobIds == {"bn_0000000a", "bn_0000000b"}
OldId == "bn_0000000a"

----------------------------------------------------------------------------
(* A String the code indexes by byte is a sequence of characters, each with *)
(* the length of its UTF-8 encoding.                                        *)

\* most characters of a prompt
MaxPromptChars == 3

\* largest max_len handed to prompt_preview
MaxPreviewLen == 5

\* one single-byte and one two-byte character: "E" stands for the two-byte é
Chars == {"a", "E"}

len_utf8(c) == IF c = "E" THEN 2 ELSE 1

\* String::len: the length in bytes
RECURSIVE byte_len(_)
byte_len(s) == IF s = <<>> THEN 0 ELSE len_utf8(Head(s)) + byte_len(Tail(s))

\* str::is_char_boundary
is_char_boundary(s, k) == \E n \in 0..Len(s) : byte_len(SubSeq(s, 1, n)) = k

\* &s[..k] for k on a character boundary
slice_to(s, k) ==
    SubSeq(s, 1, CHOOSE n \in 0..Len(s) : byte_len(SubSeq(s, 1, n)) = k)

saturating_sub(a, b) == IF a >= b THEN a - b ELSE 0

\* the characters of a String written out as one text
RECURSIVE str(_)
str(s) == IF s = <<>> THEN "" ELSE Head(s) \o str(Tail(s))

\* the strings of at most n characters
RECURSIVE Strings(_)
Strings(n) ==
    IF n = 0 THEN { <<>> }
    ELSE LET shorter == Strings(n - 1)
         IN  shorter \cup { Append(t, c) : t \in shorter, c \in Chars }

----------------------------------------------------------------------------
(* core/params.rs: GenerateParams and its builders.                         *)

default_aspect_ratio == "1:1"
default_size == "1K"
default_model == "gemini-3-pro-image-preview"

GenerateParams_new(prompt) ==
    [prompt |-> prompt, aspect_ratio |-> default_aspect_ratio,
     size |-> default_size, model |-> default_model, num_images |-> 1,
     seed |-> None, negative_prompt |-> None, reference_image |-> None,
     reference_mime_type |-> None]

with_aspect_ratio(params, ar) == [params EXCEPT !.aspect_ratio = ar]

with_size(params, size) == [params EXCEPT !.size = size]

with_model(params, model) == [params EXCEPT !.model = model]

with_reference_image(params, base64_data, mime_type) ==
    [params EXCEPT !.reference_image = Some(base64_data),
                   !.reference_mime_type = Some(mime_type)]

is_edit(params) == IsSome(params.reference_image)

----------------------------------------------------------------------------
(* core/job.rs: JobStatus and Job.                                          *)

Queued == [tag |-> "Queued"]
Running(progress) == [tag |-> "Running", progress |-> progress]
Completed == [tag |-> "Completed"]
Failed(error) == [tag |-> "Failed", error |-> error]
Cancelled == [tag |-> "Cancelled"]

is_terminal(status) == status.tag \in {"Completed", "Failed", "Cancelled"}

Min(a, b) == IF a <= b THEN a ELSE b

\* Utc::now() read by a mutation of a job: a logical instant after the one
\* the job recorded last
Utc_now(last) == last + 1

\* the constructors read the clock once (`now`) and the id is the random part
new_generate(id, params, now) ==
    [id |-> id, action |-> [type |-> "Generate"], model |-> params.model,
     params |-> params, status |-> Queued, images |-> <<>>, created_at |-> now,
     updated_at |-> now, parent_id |-> None]

\* new_edit reading the clock a second time for updated_at
new_edit_second_clock_read(id, params, now, source_image) ==
    [id |-> id, action |-> [type |-> "Edit", source_image |-> source_image],
     model |-> params.model, params |-> params, status |-> Queued,
     images |-> <<>>, created_at |-> now, updated_at |-> Utc_now(now),
     parent_id |-> None]

new_edit(id, params, now, source_image) ==
    [id |-> id, action |-> [type |-> "Edit", source_image |-> source_image],
     model |-> params.model, params |-> params, status |-> Queued,
     images |-> <<>>, created_at |-> now, updated_at |-> now,
     parent_id |-> None]

set_running(j, progress) ==
    [j EXCEPT !.status = Running(Min(progress, 100)),
              !.updated_at = Utc_now(@)]

set_completed(j) == [j EXCEPT !.status = Completed, !.updated_at = Utc_now(@)]

set_failed(j, error) ==
    [j EXCEPT !.status = Failed(error), !.updated_at = Utc_now(@)]

set_cancelled(j) == [j EXCEPT !.status = Cancelled, !.updated_at = Utc_now(@)]

add_image(j, index, data, mime_type) ==
    [j EXCEPT !.images = Append(@, [index |-> index, data |-> Some(data),
                                    path |-> None, mime_type |-> mime_type]),
              !.updated_at = Utc_now(@)]

\* outcome "ok" with the preview, or "panic" when the slice index is inside a
\* character
prompt_preview(j, max_len) ==
    IF byte_len(j.params.prompt) <= max_len
    THEN [outcome |-> "ok", value |-> j.params.prompt]
    ELSE LET k == saturating_sub(max_len, 3)
         IN  IF is_char_boundary(j.params.prompt, k)
             THEN [outcome |-> "ok",
                   value |-> slice_to(j.params.prompt, k) \o <<".", ".", ".">>]
             ELSE [outcome |-> "panic", value |-> <<>>]

----------------------------------------------------------------------------
(* core/error.rs and anyhow: errors and their Display text.                 *)

MissingApiKey == [kind |-> "MissingApiKey", msg |-> ""]
ApiError(m) == [kind |-> "ApiError", msg |-> m]
GenerationFailed(m) == [kind |-> "GenerationFailed", msg |-> m]
\* an anyhow error whose text is the context or the source error's text
Other(m) == [kind |-> "Other", msg |-> m]

to_string(e) ==
    CASE e.kind = "MissingApiKey" ->
           "API key not configured. Set GEMINI_API_KEY environment variable or run: banana config set api.key <your-key>"
      [] e.kind = "ApiError" -> "API error: " \o e.msg
      [] e.kind = "GenerationFailed" -> "Generation failed: " \o e.msg
      [] OTHER -> e.msg

\* what client.generate can fail with: send failure, non-success status, bad body
ServiceErrors ==
    { Other("Failed to send request to Gemini API"),
      ApiError("quota exceeded"),
      Other("Failed to parse Gemini API response") }

StoreError == Other("database is locked")

----------------------------------------------------------------------------
(* api/types.rs: the responses the service can return.                      *)

Text == [kind |-> "Text", text |-> "here is your image"]
InlineData(data, mime_type) ==
    [kind |-> "InlineData", data |-> data, mime_type |-> mime_type]

Mimes == <<"image/png", "image/jpeg", "image/webp", "image/gif">>

\* the image part at place p of candidate c; its payload names the place it
\* came from, so every image part of a response carries different data
Img(c, p) == InlineData(<<"b64", c, p>>, Mimes[((c + p) % Len(Mimes)) + 1])

\* Candidate.content of candidate c
Contents(c) ==
    { None,
      Some([parts |-> <<>>]),
      Some([parts |-> <<Text>>]),
      Some([parts |-> <<Img(c, 1)>>]),
      Some([parts |-> <<Text, Img(c, 2)>>]),
      Some([parts |-> <<Img(c, 1), Img(c, 2)>>]) }

\* (finish_reason, finish_message)
Finishes ==
    { <<None, None>>, <<Some("STOP"), None>>, <<Some("MAX_TOKENS"), None>>,
      <<Some("SAFETY"), None>>, <<Some("SAFETY"), Some("blocked")>> }

Candidates(c) ==
    { [content |-> co, finish_reason |-> f[1], finish_message |-> f[2]] :
        co \in Contents(c), f \in Finishes }

RECURSIVE CandidateLists(_)
CandidateLists(n) ==
    IF n = 0 THEN { <<>> }
    ELSE LET shorter == CandidateLists(n - 1)
         IN  shorter \cup
             { Append(l, c) : l \in { s \in shorter : Len(s) = n - 1 },
                              c \in Candidates(n) }

\* one candidate with n image parts
BigCandidate(n) ==
    [content |-> Some([parts |-> [p \in 1..n |-> Img(1, p)]]),
     finish_reason |-> Some("STOP"), finish_message |-> None]

Refusing ==
    [content |-> Some([parts |-> <<Img(2, 1)>>]),
     finish_reason |-> Some("SAFETY"), finish_message |-> Some("blocked")]

BigResponses ==
    { [candidates |-> Some(<<BigCandidate(U8Max + 1)>>)],
      [candidates |-> Some(<<BigCandidate(U8Max + 2)>>)],
      [candidates |-> Some(<<BigCandidate(U8Max + 1), Refusing>>)] }

Responses ==
    { [candidates |-> None] }
    \cup { [candidates |-> Some(l)] : l \in CandidateLists(MaxCands) }
    \cup BigResponses

----------------------------------------------------------------------------
(* api/mod.rs: GeminiClient::build_generate_request.                        *)

\* ContentPart::Text { text }
TextPart(text) == [kind |-> "Text", text |-> text]

GenerateRequest(parts, aspect_ratio) ==
    [contents |-> <<[parts |-> parts, role |-> None]>>,
     generation_config |->
         Some([response_modalities |-> Some(<<"TEXT", "IMAGE">>),
               image_config |-> Some([aspect_ratio |-> Some(aspect_ratio)])]),
     safety_settings |-> None]

\* build_generate_request pushing the reference image after the prompt
build_generate_request_appending(params) ==
    LET parts == <<TextPart(params.prompt)>>
    IN  GenerateRequest(
            IF IsSome(params.reference_image) /\ IsSome(params.reference_mime_type)
            THEN parts \o <<InlineData(Unwrap(params.reference_image),
                                       Unwrap(params.reference_mime_type))>>
            ELSE parts,
            params.aspect_ratio)

build_generate_request(params) ==
    LET parts == <<TextPart(params.prompt)>>
    IN  GenerateRequest(
            IF IsSome(params.reference_image) /\ IsSome(params.reference_mime_type)
            THEN <<InlineData(Unwrap(params.reference_image),
                              Unwrap(params.reference_mime_type))>> \o parts
            ELSE parts,
            params.aspect_ratio)

----------------------------------------------------------------------------
(* api/mod.rs: GeminiClient::process_response.                              *)

\* is_refusal with the MAX_TOKENS exemption forgotten
is_refusal_only_stop(candidate) ==
    /\ IsSome(candidate.finish_reason)
    /\ Unwrap(candidate.finish_reason) # "STOP"

is_refusal(candidate) ==
    /\ IsSome(candidate.finish_reason)
    /\ Unwrap(candidate.finish_reason) # "STOP"
    /\ Unwrap(candidate.finish_reason) # "MAX_TOKENS"

refusal_message(candidate) ==
    IF IsSome(candidate.finish_message)
    THEN Unwrap(candidate.finish_message)
    ELSE "Image generation was refused by the API"

\* one turn of `for part in content.parts`; `image_index += 1` on a u8: a build
\* with overflow checks panics past U8Max, a build without them wraps
part_step(w, part, overflow_checks) ==
    IF w.panic \/ part.kind # "InlineData" THEN w
    ELSE LET added == add_image(w.job, w.image_index, part.data, part.mime_type)
         IN  IF w.image_index + 1 > U8Max /\ overflow_checks
             THEN [job |-> added, image_index |-> w.image_index, panic |-> TRUE]
             ELSE [job |-> added, image_index |-> (w.image_index + 1) % (U8Max + 1),
                   panic |-> FALSE]

\* the turns for parts[lo..hi] in order, halving the range to keep the
\* evaluation shallow
RECURSIVE walk_range(_, _, _, _, _)
walk_range(w, parts, lo, hi, overflow_checks) ==
    IF w.panic \/ lo > hi THEN w
    ELSE IF lo = hi THEN part_step(w, parts[lo], overflow_checks)
    ELSE LET mid == (lo + hi) \div 2
             left == walk_range(w, parts, lo, mid, overflow_checks)
         IN  walk_range(left, parts, mid + 1, hi, overflow_checks)

walk_parts(j, image_index, parts, overflow_checks) ==
    walk_range([job |-> j, image_index |-> image_index, panic |-> FALSE],
               parts, 1, Len(parts), overflow_checks)

RECURSIVE walk_candidates(_, _, _, _, _)
walk_candidates(j, image_index, candidates, c, overflow_checks) ==
    IF c > Len(candidates) THEN [job |-> j, outcome |-> "walked", err |-> None]
    ELSE IF is_refusal(candidates[c])
    THEN [job |-> set_failed(j, refusal_message(candidates[c])),
          outcome |-> "err",
          err |-> Some(GenerationFailed(refusal_message(candidates[c])))]
    ELSE IF IsSome(candidates[c].content)
    THEN LET w == walk_parts(j, image_index, Unwrap(candidates[c].content).parts,
                             overflow_checks)
         IN  IF w.panic THEN [job |-> w.job, outcome |-> "panic", err |-> None]
             ELSE walk_candidates(w.job, w.image_index, candidates, c + 1,
                                  overflow_checks)
    ELSE walk_candidates(j, image_index, candidates, c + 1, overflow_checks)

\* process_response with the `job.images.is_empty()` check left out
process_response_no_empty_check(j, response, overflow_checks) ==
    LET candidates == IF IsSome(response.candidates)
                      THEN Unwrap(response.candidates) ELSE <<>>
        w == walk_candidates(j, 0, candidates, 1, overflow_checks)
    IN  IF w.outcome # "walked" THEN w
        ELSE [job |-> set_completed(w.job), outcome |-> "ok", err |-> None]

\* outcome "ok" is Ok(()), "err" is Err(err), "panic" is the overflow panic
process_response(j, response, overflow_checks) ==
    LET candidates == IF IsSome(response.candidates)
                      THEN Unwrap(response.candidates) ELSE <<>>
        w == walk_candidates(j, 0, candidates, 1, overflow_checks)
    IN  IF w.outcome # "walked" THEN w
        ELSE IF w.job.images = <<>>
        THEN [job |-> set_failed(w.job, "No images generated"),
              outcome |-> "err",
              err |-> Some(GenerationFailed("No images in response"))]
        ELSE [job |-> set_completed(w.job), outcome |-> "ok", err |-> None]

----------------------------------------------------------------------------
(* api/mod.rs: GeminiClient::download_images.                               *)

OutputDir == "./banana-output"

extension(mime_type) ==
    CASE mime_type = "image/png" -> "png"
      [] mime_type = "image/jpeg" -> "jpg"
      [] mime_type = "image/webp" -> "webp"
      [] OTHER -> "png"

\* Path::join: joining onto the empty path gives the file name alone
join(output_dir, filename) ==
    IF output_dir = "" THEN filename ELSE output_dir \o "/" \o filename

image_path(output_dir, id, image) ==
    join(output_dir,
         id \o "_" \o ToString(image.index) \o "." \o extension(image.mime_type))

\* download_step with the `if let Some(data) = &image.data` test dropped
download_step_ignoring_data(d, i, fail_at, fail_with) ==
    IF d.outcome = "err" THEN d
    ELSE IF i = fail_at THEN [d EXCEPT !.outcome = "err", !.err = Some(fail_with)]
    ELSE LET path == join(d.output_dir, d.job.id \o "_"
                         \o ToString(d.job.images[i].index) \o ".png")
         IN  [d EXCEPT !.job.images[i].path = Some(path),
                       !.job.images[i].data = None,
                       !.paths = Append(@, path),
                       !.files = @ \cup {path}]

\* download_step with `image.data = None` forgotten
download_step_keeping_data(d, i, fail_at, fail_with) ==
    IF d.outcome = "err" \/ ~IsSome(d.job.images[i].data) THEN d
    ELSE IF i = fail_at THEN [d EXCEPT !.outcome = "err", !.err = Some(fail_with)]
    ELSE LET path == join(d.output_dir, d.job.id \o "_"
                         \o ToString(d.job.images[i].index) \o ".png")
         IN  [d EXCEPT !.job.images[i].path = Some(path),
                       !.paths = Append(@, path),
                       !.files = @ \cup {path}]

\* one turn of `for image in &mut job.images` for image i; fail_at is the place
\* of the image whose decode or write fails (0: none does), fail_with its error
download_step(d, i, fail_at, fail_with) ==
    IF d.outcome = "err" \/ ~IsSome(d.job.images[i].data) THEN d
    ELSE IF i = fail_at THEN [d EXCEPT !.outcome = "err", !.err = Some(fail_with)]
    ELSE LET path == image_path(d.output_dir, d.job.id, d.job.images[i])
         IN  [d EXCEPT !.job.images[i].path = Some(path),
                       !.job.images[i].data = None,
                       !.paths = Append(@, path),
                       !.files = @ \cup {path}]

\* the turns for images lo..hi in order, halving the range
RECURSIVE download_range(_, _, _, _, _)
download_range(d, lo, hi, fail_at, fail_with) ==
    IF d.outcome = "err" \/ lo > hi THEN d
    ELSE IF lo = hi THEN download_step(d, lo, fail_at, fail_with)
    ELSE LET mid == (lo + hi) \div 2
             left == download_range(d, lo, mid, fail_at, fail_with)
         IN  download_range(left, mid + 1, hi, fail_at, fail_with)

DownloadErrors ==
    { Other("Failed to decode base64 image"), Other("No space left on device") }

\* dir_ok: fs::create_dir_all(output_dir) succeeded
download_images(j, output_dir, written, dir_ok, fail_at, fail_with) ==
    IF ~dir_ok
    THEN [job |-> j, output_dir |-> output_dir, outcome |-> "err",
          paths |-> <<>>, files |-> written,
          err |-> Some(Other("Permission denied"))]
    ELSE download_range([job |-> j, output_dir |-> output_dir,
                         outcome |-> "ok", paths |-> <<>>,
                         files |-> written, err |-> None],
                        1, Len(j.images), fail_at, fail_with)

----------------------------------------------------------------------------
(* db.rs: the jobs table.                                                   *)

\* INSERT: the caller checks the PRIMARY KEY on id
insert_job(st, j) == [i \in DOMAIN st \cup {j.id} |-> IF i = j.id THEN j ELSE st[i]]

\* update_job as INSERT OR REPLACE: a row for an id that is not stored
update_job_upserting(st, j) ==
    [i \in DOMAIN st \cup {j.id} |->
        IF i = j.id
        THEN IF i \in DOMAIN st THEN [j EXCEPT !.created_at = st[i].created_at]
             ELSE j
        ELSE st[i]]

\* UPDATE ... WHERE id = ?1 writes every column but id and created_at
update_job(st, j) ==
    [i \in DOMAIN st |->
        IF i = j.id THEN [j EXCEPT !.created_at = st[i].created_at] ELSE st[i]]

\* DELETE FROM jobs WHERE id = ?1
delete_job(st, id) == [i \in DOMAIN st \ {id} |-> st[i]]

\* the value delete_job returns: `Ok(deleted > 0)`, deleted the number of rows
\* the statement removed
delete_job_returns(st, id) == Cardinality({ i \in DOMAIN st : i = id }) > 0

\* SELECT ... WHERE id = ?1, `.optional()`
get_job(st, id) == IF id \in DOMAIN st THEN Some(st[id]) ELSE None

\* SELECT COUNT(*) FROM jobs
count_jobs(st) == Cardinality(DOMAIN st)

RECURSIVE by_created_at_desc(_, _)
by_created_at_desc(st, ids) ==
    IF ids = {} THEN <<>>
    ELSE LET first == CHOOSE i \in ids :
                          \A k \in ids : st[i].created_at >= st[k].created_at
         IN  <<st[first]>> \o by_created_at_desc(st, ids \ {first})

\* SELECT ... ORDER BY created_at DESC LIMIT ?1
list_jobs(st, limit) ==
    LET all == by_created_at_desc(st, DOMAIN st)
    IN  SubSeq(all, 1, Min(limit, Len(all)))

----------------------------------------------------------------------------
(* config.rs: Config, without api.key (the variable api_key), api.base_url  *)
(* and config_path.                                                         *)

\* most settings one session applies
MaxApplied == 1

\* most characters the settings edit buffer is typed up to
MaxBuffer == 2

\* the characters a session types into the prompt input, the single-byte `q`
\* and the two-byte "E", and into the settings edit buffer
InputChars == {"q", "E"}
BufferChars == {"q"}

\* the configuration the program loaded: the defaults but for a short
\* output directory
LoadedDirectory == <<"o">>

\* the texts an edited output directory can be
RECURSIVE TextsOver(_, _)
TextsOver(chars, n) ==
    IF n = 0 THEN { <<>> }
    ELSE LET shorter == TextsOver(chars, n - 1)
         IN  shorter \cup { Append(t, c) : t \in shorter, c \in chars }

DirectoryTexts ==
    TextsOver(BufferChars \cup { LoadedDirectory[i] : i \in 1..Len(LoadedDirectory) },
              MaxBuffer)

\* String::chars of a configuration value
chars(value) == CHOOSE t \in DirectoryTexts : str(t) = value

aspect_ratios ==
    <<"1:1", "2:3", "3:2", "3:4", "4:3", "4:5", "5:4", "9:16", "16:9", "21:9">>

sizes == <<"1K", "2K", "4K">>

models ==
    <<"gemini-3-pro-image-preview", "gemini-2.5-flash-image",
      "imagen-4.0-generate-001">>

DisplayMode_variants == <<"terminal", "viewer", "none">>

\* DisplayMode::from_str, on lower-case values
DisplayMode_from_str(value) ==
    IF value \in {"terminal", "viewer", "none"} THEN value ELSE "terminal"

Range(seq) == { seq[i] : i \in 1..Len(seq) }

\* bool::to_string and str::parse::<bool>
bool_to_string(b) == IF b THEN "true" ELSE "false"

parse_bool(value) ==
    CASE value = "true" -> Some(TRUE)
      [] value = "false" -> Some(FALSE)
      [] OTHER -> None

Config_default ==
    [api |-> [model |-> default_model],
     defaults |-> [aspect_ratio |-> default_aspect_ratio, size |-> default_size],
     output |-> [directory |-> "./banana-output", auto_download |-> TRUE,
                 display |-> "terminal"],
     tui |-> [show_images |-> TRUE, theme |-> "dark"]]

LoadedConfig == [Config_default EXCEPT !.output.directory = str(LoadedDirectory)]

\* Config::set for the keys the settings screen writes: the new Config, or
\* the error
Config_set(config, key, value) ==
    CASE key = "api.model" ->
            [ok |-> TRUE, config |-> [config EXCEPT !.api.model = value]]
      [] key = "defaults.aspect_ratio" ->
            IF value \in Range(aspect_ratios)
            THEN [ok |-> TRUE, config |-> [config EXCEPT !.defaults.aspect_ratio = value]]
            ELSE Err(Other("Invalid aspect ratio. Valid values: 1:1, 2:3, 3:2, 3:4, 4:3, 4:5, 5:4, 9:16, 16:9, 21:9"))
      [] key = "defaults.size" ->
            IF value \in Range(sizes)
            THEN [ok |-> TRUE, config |-> [config EXCEPT !.defaults.size = value]]
            ELSE Err(Other("Invalid size. Valid values: 1K, 2K, 4K"))
      [] key = "output.directory" ->
            [ok |-> TRUE, config |-> [config EXCEPT !.output.directory = value]]
      [] key = "output.auto_download" ->
            IF IsSome(parse_bool(value))
            THEN [ok |-> TRUE,
                  config |-> [config EXCEPT !.output.auto_download =
                                               Unwrap(parse_bool(value))]]
            ELSE Err(Other("Invalid boolean value"))
      [] key = "output.display" ->
            [ok |-> TRUE,
             config |-> [config EXCEPT !.output.display = DisplayMode_from_str(value)]]
      [] key = "tui.show_images" ->
            IF IsSome(parse_bool(value))
            THEN [ok |-> TRUE,
                  config |-> [config EXCEPT !.tui.show_images =
                                               Unwrap(parse_bool(value))]]
            ELSE Err(Other("Invalid boolean value"))
      [] key = "tui.theme" ->
            [ok |-> TRUE, config |-> [config EXCEPT !.tui.theme = value]]
      [] OTHER -> Err(Other("Unknown config key: " \o key))

----------------------------------------------------------------------------
(* tui/app.rs: App and its methods.                                         *)

\* SettingsField::all(), and label and config_key of each field
SettingsFields ==
    <<"Model", "AspectRatio", "Size", "OutputDirectory", "AutoDownload",
      "Display", "ShowImages", "Theme">>

label(field) ==
    CASE field = "Model" -> "Model"
      [] field = "AspectRatio" -> "Aspect Ratio"
      [] field = "Size" -> "Size"
      [] field = "OutputDirectory" -> "Output Directory"
      [] field = "AutoDownload" -> "Auto Download"
      [] field = "Display" -> "Display Mode"
      [] field = "ShowImages" -> "Show Images"
      [] field = "Theme" -> "Theme"

config_key(field) ==
    CASE field = "Model" -> "api.model"
      [] field = "AspectRatio" -> "defaults.aspect_ratio"
      [] field = "Size" -> "defaults.size"
      [] field = "OutputDirectory" -> "output.directory"
      [] field = "AutoDownload" -> "output.auto_download"
      [] field = "Display" -> "output.display"
      [] field = "ShowImages" -> "tui.show_images"
      [] field = "Theme" -> "tui.theme"

new_app(config) ==
    [mode |-> "Main", config |-> config, input |-> <<>>, cursor_pos |-> 0,
     jobs |-> <<>>, selected_job |-> 0, current_job |-> None,
     status_message |-> None, error_message |-> None, should_quit |-> FALSE,
     config_changed |-> FALSE, settings_selected |-> 0,
     settings_editing |-> FALSE, settings_edit_buffer |-> <<>>,
     generating |-> FALSE]

load_jobs(a, st) ==
    LET jobs == list_jobs(st, ListLimit)
    IN  [a EXCEPT !.jobs = jobs,
                  !.selected_job = IF @ >= Len(jobs) /\ jobs # <<>>
                                   THEN Len(jobs) - 1 ELSE @]

set_status(a, msg) == [a EXCEPT !.status_message = Some(msg), !.error_message = None]

set_error(a, msg) == [a EXCEPT !.error_message = Some(msg), !.status_message = None]

clear_messages(a) == [a EXCEPT !.status_message = None, !.error_message = None]

\* self.jobs.get(self.selected_job)
selected_job(a) ==
    IF a.selected_job < Len(a.jobs) THEN Some(a.jobs[a.selected_job + 1]) ELSE None

select_previous(a) ==
    IF a.selected_job > 0 THEN [a EXCEPT !.selected_job = @ - 1] ELSE a

\* select_next without the test against the end of the list
select_next_past_the_end(a) == [a EXCEPT !.selected_job = @ + 1]

select_next(a) ==
    IF a.selected_job < saturating_sub(Len(a.jobs), 1)
    THEN [a EXCEPT !.selected_job = @ + 1] ELSE a

get_settings_value(a, field) ==
    CASE field = "Model" -> a.config.api.model
      [] field = "AspectRatio" -> a.config.defaults.aspect_ratio
      [] field = "Size" -> a.config.defaults.size
      [] field = "OutputDirectory" -> a.config.output.directory
      [] field = "AutoDownload" -> bool_to_string(a.config.output.auto_download)
      [] field = "Display" -> a.config.output.display
      [] field = "ShowImages" -> bool_to_string(a.config.tui.show_images)
      [] field = "Theme" -> a.config.tui.theme

\* set_settings_value with `self.config_changed = true` forgotten
set_settings_value_without_flag(a, field, value) ==
    LET r == Config_set(a.config, config_key(field), value)
    IN  IF r.ok
        THEN [ok |-> TRUE, app |-> [a EXCEPT !.config = r.config]]
        ELSE [ok |-> FALSE, err |-> r.err, app |-> a]

\* the App after the call, and the call's Result
set_settings_value(a, field, value) ==
    LET r == Config_set(a.config, config_key(field), value)
    IN  IF r.ok
        THEN [ok |-> TRUE,
              app |-> [a EXCEPT !.config = r.config, !.config_changed = TRUE]]
        ELSE [ok |-> FALSE, err |-> r.err, app |-> a]

get_settings_options(field) ==
    CASE field = "Model" -> Some(models)
      [] field = "AspectRatio" -> Some(aspect_ratios)
      [] field = "Size" -> Some(sizes)
      [] field = "AutoDownload" -> Some(<<"true", "false">>)
      [] field = "Display" -> Some(DisplayMode_variants)
      [] field = "ShowImages" -> Some(<<"true", "false">>)
      [] field = "Theme" -> Some(<<"dark", "light">>)
      [] OTHER -> None

\* options.iter().position(|&o| o == current).unwrap_or(0)
position_or_0(options, current) ==
    IF current \in Range(options)
    THEN (CHOOSE i \in 1..Len(options) :
             options[i] = current /\ \A k \in 1..(i - 1) : options[k] # current) - 1
    ELSE 0

cycle_settings_option(a, field) ==
    IF IsSome(get_settings_options(field))
    THEN LET options == Unwrap(get_settings_options(field))
             current_idx == position_or_0(options, get_settings_value(a, field))
             next_idx == (current_idx + 1) % Len(options)
         IN  set_settings_value(a, field, options[next_idx + 1])
    ELSE [ok |-> TRUE, app |-> a]

----------------------------------------------------------------------------
(* The pipeline runs: cli/commands/generate.rs run, cli/commands/edit.rs    *)
(* run, tui/event_handler.rs generate_image.                                *)

Kinds == {"generate", "edit", "tui"}

Prompt == <<"a", "E">>

\* the params a run builds when no option overrides the default configuration
GenerateParams ==
    with_model(with_size(with_aspect_ratio(GenerateParams_new(Prompt),
                                           default_aspect_ratio),
                         default_size),
               default_model)
EditParams == with_reference_image(GenerateParams, "cmVm", "image/png")

\* the instant the run's constructor reads, after the earlier run's last one
StartTime == 4

\* the row of an earlier, finished run
OldRow ==
    [id |-> OldId, action |-> [type |-> "Generate"], model |-> default_model,
     params |-> GenerateParams, status |-> Completed,
     images |-> <<[index |-> 0, data |-> None,
                   path |-> Some("./banana-output/bn_0000000a_0.png"),
                   mime_type |-> "image/png"]>>,
     created_at |-> 0, updated_at |-> 3, parent_id |-> None]

OldStore == [i \in {OldId} |-> OldRow]

\* the state once the run has built its Job: in a session, after App::new,
\* load_jobs and the first two statements of generate_image
Init ==
    /\ kind \in Kinds
    /\ api_key \in {None, Some("key")}
    /\ store = OldStore
    /\ \E id \in JobIds :
          job = IF kind = "edit"
                THEN new_edit(id, EditParams, StartTime, "/tmp/ref.png")
                ELSE new_generate(id, GenerateParams, StartTime)
    /\ pc = "created"
    /\ resp = None
    /\ err = None
    /\ result = None
    /\ files = {"./banana-output/bn_0000000a_0.png"}
    /\ \E auto_download \in BOOLEAN :
          LET config == [LoadedConfig EXCEPT !.output.auto_download = auto_download]
          IN  app = IF kind = "tui"
                    THEN [set_status(load_jobs(new_app(config), store),
                                     "Generating: " \o str(Prompt) \o "...")
                          EXCEPT !.generating = TRUE]
                    ELSE new_app(LoadedConfig)
    /\ config_file = [content |-> LoadedConfig, saves |-> 0]
    /\ counts = [applied |-> 0, runs |-> 0]

Returns(r) == pc' = "returned" /\ result' = Some(r)

\* db.insert_job(&job)?
InsertJob ==
    /\ pc = "created"
    /\ \/ /\ job.id \notin DOMAIN store
          /\ store' = insert_job(store, job)
          /\ pc' = "inserted"
          /\ UNCHANGED result
       \/ /\ Returns(Err(StoreError))
          /\ UNCHANGED store
    /\ UNCHANGED <<config_file, counts, kind, job, api_key, resp, err, files, app>>

\* batch: job.set_failed(e.to_string()); db.update_job(&job)?; return Err(e)
BatchFail(e) ==
    LET failed == set_failed(job, to_string(e))
    IN  /\ job' = failed
        /\ \/ store' = update_job(store, failed) /\ Returns(Err(e))
           \/ store' = store /\ Returns(Err(StoreError))
        /\ UNCHANGED app

\* TuiFail without `app.generating = false`
TuiFail_leaving_generating(e) ==
    LET failed == set_failed(job, to_string(e))
    IN  /\ job' = failed
        /\ \/ store' = store /\ app' = app /\ Returns(Err(StoreError))
           \/ /\ store' = update_job(store, failed)
              /\ \/ app' = app /\ Returns(Err(StoreError))
                 \/ /\ app' = set_error(load_jobs(app, store'), to_string(e))
                    /\ Returns(Ok)

\* session: job.set_failed(e.to_string()); app.db.update_job(&job)?;
\* app.load_jobs()?; app.set_error(e.to_string()); app.generating = false;
\* return Ok(())
TuiFail(e) ==
    LET failed == set_failed(job, to_string(e))
    IN  /\ job' = failed
        /\ \/ store' = store /\ app' = app /\ Returns(Err(StoreError))
           \/ /\ store' = update_job(store, failed)
              /\ \/ app' = app /\ Returns(Err(StoreError))
                 \/ /\ app' = [set_error(load_jobs(app, store'), to_string(e))
                                EXCEPT !.generating = FALSE]
                    /\ Returns(Ok)

\* GeminiClient::from_config(config)
FromConfig ==
    /\ pc = "inserted"
    /\ \/ /\ IsSome(api_key)
          /\ pc' = "client"
          /\ UNCHANGED <<job, store, result, app>>
       \/ /\ ~IsSome(api_key)
          /\ kind # "tui"
          /\ Returns(Err(MissingApiKey))
          /\ UNCHANGED <<job, store, app>>
       \/ /\ ~IsSome(api_key)
          /\ kind = "tui"
          /\ TuiFail(MissingApiKey)
    /\ UNCHANGED <<config_file, counts, kind, api_key, resp, err, files>>

\* SetRunning with the update's error dropped instead of returned
SetRunning_ignoring_store_error ==
    /\ pc = "client"
    /\ job' = set_running(job, 0)
    /\ \/ store' = update_job(store, job')
       \/ store' = store
    /\ pc' = "calling"
    /\ UNCHANGED <<config_file, counts, kind, api_key, resp, err, result, files, app>>

\* job.set_running(0); db.update_job(&job)?
SetRunning ==
    /\ pc = "client"
    /\ job' = set_running(job, 0)
    /\ \/ store' = update_job(store, job') /\ pc' = "calling" /\ UNCHANGED result
       \/ store' = store /\ Returns(Err(StoreError))
    /\ UNCHANGED <<config_file, counts, kind, api_key, resp, err, files, app>>

\* client.generate(&job.params).await answers Ok(response), one of `responses`
ServiceRespondsWith(responses) ==
    /\ pc = "calling"
    /\ \E r \in responses : resp' = Some(r)
    /\ pc' = "responded"
    /\ UNCHANGED <<config_file, counts, kind, job, store, api_key, err, result, files, app>>

ServiceResponds == ServiceRespondsWith(Responses)

\* client.generate(&job.params).await answers Err(e), and the Err(e) arm
ServiceFailsWith(errors) ==
    /\ pc = "calling"
    /\ \E e \in errors :
          /\ err' = Some(e)
          /\ \/ kind # "tui" /\ BatchFail(e)
             \/ /\ kind = "tui"
                /\ job' = set_failed(job, to_string(e))
                /\ app' = set_error(app, to_string(e))
                /\ pc' = "finalize"
                /\ UNCHANGED <<store, result>>
    /\ UNCHANGED <<config_file, counts, kind, api_key, resp, files>>

ServiceFails == ServiceFailsWith(ServiceErrors)

\* client.process_response(&mut job, response)
ProcessResponse ==
    /\ pc = "responded"
    /\ \E overflow_checks \in BOOLEAN :
          LET r == process_response(job, Unwrap(resp), overflow_checks)
          IN  /\ job' = r.job
              /\ err' = r.err
              /\ pc' = CASE r.outcome = "ok" -> "processed"
                         [] r.outcome = "err" -> "process_err"
                         [] OTHER -> "panicked"
    /\ resp' = None
    /\ UNCHANGED <<config_file, counts, kind, store, api_key, result, files, app>>

\* the `if let Err(e) = client.process_response(..)` block
ProcessFailed ==
    /\ pc = "process_err"
    /\ \/ kind # "tui" /\ BatchFail(Unwrap(err))
       \/ kind = "tui" /\ TuiFail(Unwrap(err))
    /\ UNCHANGED <<config_file, counts, kind, api_key, resp, err, files>>

ImageCount(n) == ToString(n) \o " image(s)"

\* the download phase of a batch run: `download_images(..).await?`
BatchDownload ==
    /\ pc = "processed"
    /\ kind # "tui"
    /\ \E no_download \in BOOLEAN, auto_download \in BOOLEAN :
          IF ~no_download /\ auto_download
          THEN \E dir_ok \in BOOLEAN, fail_at \in 0..Min(Len(job.images), 2),
                  fail_with \in DownloadErrors :
                 LET d == download_images(job, OutputDir, files, dir_ok, fail_at, fail_with)
                 IN  /\ job' = d.job
                     /\ files' = d.files
                     /\ IF d.outcome = "ok"
                        THEN pc' = "finalize" /\ UNCHANGED result
                        ELSE Returns(Err(Unwrap(d.err)))
          ELSE pc' = "finalize" /\ UNCHANGED <<job, files, result>>
    /\ UNCHANGED <<config_file, counts, kind, store, api_key, resp, err, app>>

\* the download phase of a session's run: the error is shown, not returned
TuiDownloadWith(errors) ==
    /\ pc = "processed"
    /\ kind = "tui"
    /\ IF app.config.output.auto_download
          THEN \E dir_ok \in BOOLEAN, fail_at \in 0..Min(Len(job.images), 2),
                  fail_with \in errors :
                 LET d == download_images(job, app.config.output.directory, files,
                                          dir_ok, fail_at, fail_with)
                 IN  /\ job' = d.job
                     /\ files' = d.files
                     /\ app' = IF d.outcome = "ok"
                               THEN set_status(app,
                                        "Generated " \o ImageCount(Len(d.paths)) \o ": "
                                        \o (IF d.paths = <<>> THEN "" ELSE d.paths[1]))
                               ELSE set_error(app,
                                        "Download failed: " \o to_string(Unwrap(d.err)))
          ELSE /\ app' = set_status(app, "Generated " \o ImageCount(Len(job.images)))
               /\ UNCHANGED <<job, files>>
    /\ pc' = "finalize"
    /\ UNCHANGED <<config_file, counts, kind, store, api_key, resp, err, result>>

TuiDownload == TuiDownloadWith(DownloadErrors)

\* batch: db.update_job(&job)?; Ok(())
BatchFinalize ==
    /\ pc = "finalize"
    /\ kind # "tui"
    /\ \/ store' = update_job(store, job) /\ Returns(Ok)
       \/ store' = store /\ Returns(Err(StoreError))
    /\ UNCHANGED <<config_file, counts, kind, job, api_key, resp, err, files, app>>

\* TuiFinalize without `app.generating = false`
TuiFinalize_leaving_generating ==
    /\ pc = "finalize"
    /\ kind = "tui"
    /\ \/ store' = store /\ app' = app /\ Returns(Err(StoreError))
       \/ /\ store' = update_job(store, job)
          /\ \/ app' = app /\ Returns(Err(StoreError))
             \/ app' = load_jobs(app, store') /\ Returns(Ok)
    /\ UNCHANGED <<config_file, counts, kind, job, api_key, resp, err, files>>

\* session: app.db.update_job(&job)?; app.load_jobs()?;
\* app.generating = false; Ok(())
TuiFinalize ==
    /\ pc = "finalize"
    /\ kind = "tui"
    /\ \/ store' = store /\ app' = app /\ Returns(Err(StoreError))
       \/ /\ store' = update_job(store, job)
          /\ \/ app' = app /\ Returns(Err(StoreError))
             \/ /\ app' = [load_jobs(app, store') EXCEPT !.generating = FALSE]
                /\ Returns(Ok)
    /\ UNCHANGED <<config_file, counts, kind, job, api_key, resp, err, files>>

Next ==
    \/ InsertJob
    \/ FromConfig
    \/ SetRunning
    \/ ServiceResponds
    \/ ServiceFails
    \/ ProcessResponse
    \/ ProcessFailed
    \/ BatchDownload
    \/ TuiDownload
    \/ BatchFinalize
    \/ TuiFinalize

Spec == Init /\ [][Next]_vars

----------------------------------------------------------------------------
(* What a response holds, read off the response itself.                     *)

CandidatesOf(response) ==
    IF IsSome(response.candidates) THEN Unwrap(response.candidates) ELSE <<>>

Refuses(candidate) ==
    /\ candidate.finish_reason # None
    /\ candidate.finish_reason \notin {Some("STOP"), Some("MAX_TOKENS")}

IsImagePart(part) == part.kind = "InlineData"

ImagePartsOf(candidate) ==
    IF IsSome(candidate.content)
    THEN SelectSeq(Unwrap(candidate.content).parts, IsImagePart)
    ELSE <<>>

\* the image parts of the first n candidates, in the order they come
RECURSIVE ImagePartsUpTo(_, _)
ImagePartsUpTo(candidates, n) ==
    IF n = 0 THEN <<>>
    ELSE ImagePartsUpTo(candidates, n - 1) \o ImagePartsOf(candidates[n])

\* place of the first refusing candidate, 0 when none refuses
FirstRefusal(candidates) ==
    IF \E c \in 1..Len(candidates) : Refuses(candidates[c])
    THEN CHOOSE c \in 1..Len(candidates) :
             /\ Refuses(candidates[c])
             /\ \A b \in 1..(c - 1) : ~Refuses(candidates[b])
    ELSE 0

\* the images a job holds when exactly these parts were appended in order
ImagesFrom(parts) ==
    [i \in 1..Len(parts) |->
        [index |-> i - 1, data |-> Some(parts[i].data), path |-> None,
         mime_type |-> parts[i].mime_type]]

\* the step in which the run interprets the response it holds
Interprets == pc = "responded" /\ pc' # "responded"

----------------------------------------------------------------------------
(* C1: once the run's job has a terminal status (Completed, Failed,         *)
(* Cancelled), no later step of the run changes that status, the message    *)
(* carried by Failed included.                                              *)
C1_TerminalStatusNeverChanges ==
    [][is_terminal(job.status) => job'.status = job.status]_vars

(* C2: whenever a run returns an error to its caller, the stored record of  *)
(* the run's job already has the terminal status Failed. Stated for the     *)
(* errors that leave the store able to record them: the missing credential, *)
(* the service's failures, the refusal and the empty result.                *)
C2_ReturnedErrorIsPersisted ==
    (/\ pc = "returned"
     /\ ~Unwrap(result).ok
     /\ Unwrap(result).err # StoreError)
    => (/\ job.id \in DOMAIN store
        /\ store[job.id].status.tag = "Failed")

(* C3: interpreting a response in which no candidate refuses and which      *)
(* holds N >= 1 image parts leaves the job Completed with exactly N images, *)
(* indexed 0..N-1 in the order the parts come across the candidates, text   *)
(* parts adding none.                                                       *)
C3_ImagesIndexedInEncounterOrder ==
    [][LET candidates == CandidatesOf(Unwrap(resp))
           parts == ImagePartsUpTo(candidates, Len(candidates))
       IN  (Interprets /\ FirstRefusal(candidates) = 0 /\ Len(parts) >= 1)
           => (/\ job'.status = Completed
               /\ job'.images = ImagesFrom(parts))]_vars

C5_RefusalMessageKept ==
    (/\ pc = "returned"
     /\ err = Some(GenerationFailed("blocked"))
     /\ Unwrap(result) # Err(StoreError))
    => (/\ job.status = Failed("blocked")
        /\ store[job.id].status = Failed("blocked"))

\* every job, in memory or stored, that is Completed has an image
CompletedHasImage ==
    /\ job.status = Completed => job.images # <<>>
    /\ \A id \in DOMAIN store :
          store[id].status = Completed => store[id].images # <<>>

(* C6: interpreting a response with no image part and no refusal (also one  *)
(* with no candidates at all) leaves the job Failed with no image, the      *)
(* handling of that error keeps it so, and in every state a Completed job   *)
(* has at least one image.                                                  *)
C6_NoImageMeansFailed ==
    /\ []CompletedHasImage
    /\ [][/\ LET candidates == CandidatesOf(Unwrap(resp))
              IN  ((/\ Interprets
                    /\ FirstRefusal(candidates) = 0
                    /\ ImagePartsUpTo(candidates, Len(candidates)) = <<>>)
                   => (/\ pc' = "process_err"
                       /\ job'.status.tag = "Failed"
                       /\ job'.images = <<>>))
           /\ ((pc = "process_err" /\ job.images = <<>>)
               => (job'.status.tag = "Failed" /\ job'.images = <<>>))]_vars

\* the empty result was met
C6_Witness ==
    /\ pc = "returned"
    /\ err = Some(GenerationFailed("No images in response"))
    /\ job.status.tag = "Failed"
    /\ job.images = <<>>
    /\ store[job.id].status.tag = "Failed"

(* C7: the job is in the store as Queued from its insert on, the store is   *)
(* updated to Running(0) next, and only then is the service called: while   *)
(* the call is in flight the store holds the job's record as Running(0).    *)
C7_RunningPersistedBeforeCall ==
    /\ ((pc \in {"inserted", "client"})
        => (job.id \in DOMAIN store /\ store[job.id].status = Queued))
    /\ ((pc = "calling")
        => (/\ job.id \in DOMAIN store
            /\ store[job.id].status = Running(0)
            /\ job.status = Running(0)))
    /\ ((pc \in {"created", "inserted", "client"}) => (resp = None /\ err = None))

\* the call is in flight in a session's run
C7_Witness == pc = "calling" /\ kind = "tui" /\ app.generating

(* C8: the statuses a run's job takes are a prefix of Queued, Running, then *)
(* exactly one of Completed or Failed: every change of status is Queued to  *)
(* Running, Running to Completed or Running to Failed.                      *)
C8_StatusSequence ==
    [][job'.status # job.status
          => <<job.status.tag, job'.status.tag>> \in
                {<<"Queued", "Running">>, <<"Running", "Completed">>,
                 <<"Running", "Failed">>}]_vars

(* C9: a job becomes Failed only in the step that handles the service's     *)
(* answer (a transport or parse error, a refusal, an empty result); with no *)
(* credential configured the run, batch or interactive, never calls the     *)
(* service and never sets its job Failed.                                   *)
C9_FailedOnlyByServiceOutcome ==
    [][(job'.status.tag = "Failed" /\ job.status.tag # "Failed")
          => (IsSome(api_key) /\ pc \in {"calling", "responded"})]_vars

(* C10: a failure of the download phase never changes the job's status:     *)
(* when a run whose interpretation gave at least one image returns to its   *)
(* caller, the job is Completed and so is its record in the store, whether  *)
(* or not the download failed. Stated for the returns that are not the      *)
(* store's own failure.                                                     *)
C10_DownloadFailureKeepsCompleted ==
    (/\ pc = "returned"
     /\ job.status = Completed
     /\ Unwrap(result) # Err(StoreError))
    => (/\ job.images # <<>>
        /\ job.id \in DOMAIN store
        /\ store[job.id].status = Completed)

----------------------------------------------------------------------------
(* Claims about the download phase inside a pipeline run.                   *)

\* the step in which the run goes through its download phase
Downloads == pc = "processed" /\ pc' # "processed"

\* the messages a session shows for a decode or write failure
DownloadFailureMessages ==
    { Some("Download failed: " \o to_string(e)) : e \in DownloadErrors }

\* the download step reported a decode or write failure of an image
ReportsImageFailure ==
    \/ /\ kind # "tui"
       /\ pc' = "returned"
       /\ \E e \in DownloadErrors : result' = Some(Err(e))
    \/ /\ kind = "tui"
       /\ app'.error_message \in DownloadFailureMessages

\* places of the images without a persisted location
Unmaterialised(images) == { i \in 1..Len(images) : images[i].path = None }

(* C11: a decode or write failure on one image of the download phase        *)
(* touches that image only: after the phase every other image of the job    *)
(* has its persisted location set, and the failure is reported.             *)
C11_DownloadFailureIsPerImage ==
    [][(Downloads /\ ReportsImageFailure)
          => Cardinality(Unmaterialised(job'.images)) <= 1]_vars

\* every image has exactly one of inline payload and persisted location
OneOfDataPath(images) ==
    \A i \in 1..Len(images) : IsSome(images[i].data) # IsSome(images[i].path)

(* C13: in every reachable state each image of a job, in memory or stored,  *)
(* has exactly one of inline payload and persisted location set; this holds *)
(* also after a download phase that failed part-way.                        *)
C13_ExactlyOneOfDataAndPath ==
    /\ OneOfDataPath(job.images)
    /\ \A id \in DOMAIN store : OneOfDataPath(store[id].images)
    /\ \A i \in 1..Len(app.jobs) : OneOfDataPath(app.jobs[i].images)

\* a download that failed on the second of two images
C13_Witness ==
    /\ pc = "finalize"
    /\ kind = "tui"
    /\ app.error_message \in DownloadFailureMessages
    /\ Len(job.images) = 2
    /\ IsSome(job.images[1].path) /\ ~IsSome(job.images[1].data)
    /\ IsSome(job.images[2].data) /\ ~IsSome(job.images[2].path)

----------------------------------------------------------------------------
(* The download phase applied again and again to one job:                   *)
(* api/mod.rs GeminiClient::download_images.                                *)

\* Ok(v)
OkWith(v) == [ok |-> TRUE, value |-> v]

\* the jobs process_response leaves Completed
CompletedJobs ==
    { process_response(new_generate(id, GenerateParams, StartTime), r, FALSE).job :
        id \in JobIds,
        r \in { q \in Responses :
                  process_response(new_generate(OldId, GenerateParams, StartTime), q,
                                   FALSE).outcome = "ok" } }

DownloadInit ==
    /\ kind = "generate"
    /\ api_key = Some("key")
    /\ store = OldStore
    /\ job \in CompletedJobs
    /\ pc = "download"
    /\ resp = None
    /\ err = None
    /\ result = None
    /\ files = {"./banana-output/bn_0000000a_0.png"}
    /\ app = new_app(LoadedConfig)
    /\ config_file = [content |-> LoadedConfig, saves |-> 0]
    /\ counts = [applied |-> 0, runs |-> 0]

\* client.download_images(&mut job, &output_dir).await
DownloadImages ==
    /\ pc = "download"
    /\ \E dir_ok \in BOOLEAN, fail_at \in 0..Min(Len(job.images), 2),
          fail_with \in DownloadErrors :
          LET d == download_images(job, OutputDir, files, dir_ok, fail_at, fail_with)
          IN  /\ job' = d.job
              /\ files' = d.files
              /\ result' = Some(IF d.outcome = "ok" THEN OkWith(d.paths)
                                ELSE Err(Unwrap(d.err)))
    /\ UNCHANGED <<config_file, counts, kind, pc, store, api_key, resp, err, app>>

DownloadNext == DownloadImages

DownloadSpec == DownloadInit /\ [][DownloadNext]_vars

\* every image of the job has been written and has dropped its payload
AllDownloaded(j) ==
    \A i \in 1..Len(j.images) :
        IsSome(j.images[i].path) /\ ~IsSome(j.images[i].data)

(* C12: download_images run again on a job whose images were all written by *)
(* an earlier run changes no image, writes no file (it returns no path and  *)
(* leaves the files as they were); and a run never changes an image whose   *)
(* persisted location is already set.                                       *)
C12_DownloadIsIdempotent ==
    [][/\ ((pc = "download" /\ AllDownloaded(job))
           => (/\ job' = job
               /\ files' = files
               /\ (Unwrap(result').ok => Unwrap(result').value = <<>>)))
       /\ \A i \in 1..Len(job.images) :
             IsSome(job.images[i].path) => job'.images[i] = job.images[i]]_vars

\* a second run that succeeded on a job of two written images
C12_Witness ==
    /\ pc = "download"
    /\ result = Some(OkWith(<<>>))
    /\ Len(job.images) = 2
    /\ AllDownloaded(job)
    /\ { job.images[1].path, job.images[2].path } \subseteq { Some(f) : f \in files }

----------------------------------------------------------------------------
(* The Job entity on its own: the constructors applied to every params the  *)
(* commands can build, then prompt_preview and build_generate_request.      *)

\* (base64 data, mime type) as load_image_base64 returns them
ReferenceImages == { <<"cmVm", "image/png">>, <<"", "image/gif">> }

\* params as generate.rs run builds them
BuiltGenerateParams ==
    { with_model(with_size(with_aspect_ratio(GenerateParams_new(prompt),
                                             default_aspect_ratio),
                           default_size),
                 default_model) : prompt \in Strings(MaxPromptChars) }

\* params as edit.rs run builds them
BuiltEditParams ==
    { with_reference_image(params, ref[1], ref[2]) :
        params \in BuiltGenerateParams, ref \in ReferenceImages }

EntityInit ==
    /\ kind \in {"generate", "edit"}
    /\ api_key = Some("key")
    /\ store = OldStore
    /\ IF kind = "edit"
       THEN \E params \in BuiltEditParams :
               job = new_edit("bn_0000000b", params, StartTime, "/tmp/ref.png")
       ELSE \E params \in BuiltGenerateParams :
               job = new_generate("bn_0000000b", params, StartTime)
    /\ pc = "new"
    /\ resp = None
    /\ err = None
    /\ result = None
    /\ files = {}
    /\ app = new_app(LoadedConfig)
    /\ config_file = [content |-> LoadedConfig, saves |-> 0]
    /\ counts = [applied |-> 0, runs |-> 0]

\* job.prompt_preview(max_len)
PromptPreview ==
    /\ pc = "new"
    /\ \E max_len \in 0..MaxPreviewLen :
          result' = Some([call |-> "prompt_preview", max_len |-> max_len,
                          ret |-> prompt_preview(job, max_len)])
    /\ UNCHANGED <<config_file, counts, kind, pc, job, store, api_key, resp, err, files, app>>

\* client.build_generate_request(&job.params)
BuildGenerateRequest ==
    /\ pc = "new"
    /\ result' = Some([call |-> "build_generate_request",
                       ret |-> build_generate_request(job.params)])
    /\ UNCHANGED <<config_file, counts, kind, pc, job, store, api_key, resp, err, files, app>>

EntityNext == PromptPreview \/ BuildGenerateRequest

EntitySpec == EntityInit /\ [][EntityNext]_vars

\* the last call was `call`
Called(call) == IsSome(result) /\ Unwrap(result).call = call

(* C14: the request built for params carrying a reference image has exactly *)
(* two content parts, the reference image as inline data first and the text *)
(* prompt second; the request built for params without one has exactly one  *)
(* part, the text prompt.                                                   *)
C14_ReferenceImageComesFirst ==
    Called("build_generate_request")
    => LET contents == Unwrap(result).ret.contents
           params == job.params
       IN  /\ Len(contents) = 1
           /\ contents[1].parts =
                 IF is_edit(params)
                 THEN <<InlineData(Unwrap(params.reference_image),
                                   Unwrap(params.reference_mime_type)),
                        TextPart(params.prompt)>>
                 ELSE <<TextPart(params.prompt)>>

\* a request was built for an edit with a two-byte character in its prompt
C14_Witness ==
    /\ Called("build_generate_request")
    /\ is_edit(job.params)
    /\ job.params.prompt = <<"E", "a">>
    /\ Len(Unwrap(result).ret.contents[1].parts) = 2

(* C15: both constructors yield a job with status Queued, an empty image    *)
(* list, no parent id, and updated_at equal to created_at.                  *)
C15_ConstructorsYieldQueued ==
    pc = "new"
    => /\ job.status = Queued
       /\ job.images = <<>>
       /\ job.parent_id = None
       /\ job.updated_at = job.created_at

\* an edit job as new_edit built it
C15_Witness ==
    /\ pc = "new"
    /\ result = None
    /\ job.action = [type |-> "Edit", source_image |-> "/tmp/ref.png"]
    /\ job.params.reference_image = Some("cmVm")
    /\ job.status = Queued

(* C16: for every prompt and every max_len >= 0, prompt_preview returns     *)
(* without failing, and its result is at most max_len bytes long, the       *)
(* ellipsis included (a result is a string, so no character of it is cut).  *)
C16_PreviewFitsMaxLen ==
    Called("prompt_preview")
    => /\ Unwrap(result).ret.outcome = "ok"
       /\ byte_len(Unwrap(result).ret.value) <= Unwrap(result).max_len

----------------------------------------------------------------------------
(* tui/event_handler.rs: the key handlers of the four modes.                *)

\* most characters typed into the prompt input
MaxInput == 1

\* most generations one session starts
MaxRuns == 1

\* crossterm KeyEvent: its code, the character of a Char, the CONTROL modifier
Key(code) == [code |-> code, c |-> "", ctrl |-> FALSE]
Char(c) == [code |-> "Char", c |-> c, ctrl |-> FALSE]
CtrlC == [code |-> "Char", c |-> "c", ctrl |-> TRUE]
IsChar(key, c) == key.code = "Char" /\ key.c = c

\* String::insert(idx, ch): None stands for the panic on an idx that is no
\* character boundary
insert(s, idx, ch) ==
    IF is_char_boundary(s, idx)
    THEN LET n == Len(slice_to(s, idx))
         IN  Some(SubSeq(s, 1, n) \o <<ch>> \o SubSeq(s, n + 1, Len(s)))
    ELSE None

\* String::remove(idx): None stands for the panic on an idx at or past the end
\* or on no character boundary
remove(s, idx) ==
    IF idx < byte_len(s) /\ is_char_boundary(s, idx)
    THEN LET n == Len(slice_to(s, idx))
         IN  Some(SubSeq(s, 1, n) \o SubSeq(s, n + 2, Len(s)))
    ELSE None

\* the `s` arm with `app.settings_selected = 0` forgotten
open_settings_keeping_cursor(a) ==
    [a EXCEPT !.mode = "Settings", !.settings_editing = FALSE]

\* the `s` arm of handle_main_input
open_settings(a) ==
    [a EXCEPT !.mode = "Settings", !.settings_selected = 0,
              !.settings_editing = FALSE]

\* db_fail: which of the handler's calls of the store fails (0: none)
handle_main_input(a, st, key, db_fail) ==
    LET done(b) == [app |-> b, store |-> st, result |-> Ok]
    IN  CASE key.code = "Up" \/ IsChar(key, "k") -> done(select_previous(a))
          [] key.code = "Down" \/ IsChar(key, "j") -> done(select_next(a))
          [] key.code = "Home" -> done([a EXCEPT !.selected_job = 0])
          [] key.code = "End" ->
                done(IF a.jobs # <<>>
                     THEN [a EXCEPT !.selected_job = Len(a.jobs) - 1] ELSE a)
          [] IsChar(key, "i") \/ IsChar(key, "/") ->
                done(clear_messages([a EXCEPT !.mode = "Input"]))
          [] key.code = "Enter" ->
                done(IF IsSome(selected_job(a))
                     THEN [a EXCEPT !.current_job = selected_job(a),
                                    !.mode = "JobDetail"]
                     ELSE a)
          [] IsChar(key, "s") -> done(open_settings(a))
          [] IsChar(key, "r") ->
                IF db_fail = 1
                THEN [app |-> a, store |-> st, result |-> Err(StoreError)]
                ELSE done(set_status(load_jobs(a, st), "Refreshed job list"))
          [] IsChar(key, "d") ->
                IF IsSome(selected_job(a))
                THEN LET id == Unwrap(selected_job(a)).id
                         deleted == delete_job(st, id)
                     IN  CASE db_fail = 1 ->
                                 [app |-> a, store |-> st, result |-> Err(StoreError)]
                           [] db_fail = 2 ->
                                 [app |-> a, store |-> deleted,
                                  result |-> Err(StoreError)]
                           [] OTHER ->
                                 [app |-> set_status(load_jobs(a, deleted),
                                                     "Deleted job: " \o id),
                                  store |-> deleted, result |-> Ok]
                ELSE done(a)
          [] IsChar(key, "q") \/ key.code = "Esc" ->
                done([a EXCEPT !.should_quit = TRUE])
          [] OTHER -> done(a)

\* the Esc arm with `app.input.clear()` forgotten
cancel_input_keeping_text(a) == [a EXCEPT !.mode = "Main", !.cursor_pos = 0]

\* the Esc arm of handle_input_mode
cancel_input(a) == [a EXCEPT !.mode = "Main", !.input = <<>>, !.cursor_pos = 0]

\* outcome "generate": the handler goes on into generate_image(app, prompt)
handle_input_mode(a, key) ==
    LET done(b) == [app |-> b, outcome |-> "ok"]
        panic == [app |-> a, outcome |-> "panic"]
    IN  CASE key.code = "Esc" -> done(cancel_input(a))
          [] key.code = "Enter" ->
                IF a.input # <<>>
                THEN [app |-> [a EXCEPT !.input = <<>>, !.cursor_pos = 0,
                                        !.mode = "Main"],
                      outcome |-> "generate", prompt |-> a.input]
                ELSE done(a)
          [] key.code = "Char" ->
                LET r == insert(a.input, a.cursor_pos, key.c)
                IN  IF IsSome(r)
                    THEN done([a EXCEPT !.input = Unwrap(r), !.cursor_pos = @ + 1])
                    ELSE panic
          [] key.code = "Backspace" ->
                IF a.cursor_pos > 0
                THEN LET r == remove(a.input, a.cursor_pos - 1)
                     IN  IF IsSome(r)
                         THEN done([a EXCEPT !.cursor_pos = @ - 1,
                                             !.input = Unwrap(r)])
                         ELSE panic
                ELSE done(a)
          [] key.code = "Delete" ->
                IF a.cursor_pos < byte_len(a.input)
                THEN LET r == remove(a.input, a.cursor_pos)
                     IN  IF IsSome(r) THEN done([a EXCEPT !.input = Unwrap(r)])
                         ELSE panic
                ELSE done(a)
          [] key.code = "Left" ->
                done(IF a.cursor_pos > 0 THEN [a EXCEPT !.cursor_pos = @ - 1] ELSE a)
          [] key.code = "Right" ->
                done(IF a.cursor_pos < byte_len(a.input)
                     THEN [a EXCEPT !.cursor_pos = @ + 1] ELSE a)
          [] key.code = "Home" -> done([a EXCEPT !.cursor_pos = 0])
          [] key.code = "End" -> done([a EXCEPT !.cursor_pos = byte_len(a.input)])
          [] OTHER -> done(a)

\* the detail view closing without `app.current_job = None`
handle_job_detail_input_keeping_job(a, key) ==
    IF key.code = "Esc" \/ IsChar(key, "q") \/ key.code = "Backspace"
    THEN [a EXCEPT !.mode = "Main"]
    ELSE a

\* the detail view dropping its job on every key
handle_job_detail_input_dropping(a, key) ==
    IF key.code = "Esc" \/ IsChar(key, "q") \/ key.code = "Backspace"
    THEN [a EXCEPT !.mode = "Main", !.current_job = None]
    ELSE [a EXCEPT !.current_job = None]

handle_job_detail_input(a, key) ==
    IF key.code = "Esc" \/ IsChar(key, "q") \/ key.code = "Backspace"
    THEN [a EXCEPT !.mode = "Main", !.current_job = None]
    ELSE a

\* the Esc arm of the editing branch, leaving the settings screen as well
cancel_edit_to_main(a) ==
    [a EXCEPT !.mode = "Main", !.settings_editing = FALSE,
              !.settings_edit_buffer = <<>>]

\* the Esc arm of the editing branch with `settings_edit_buffer.clear()`
\* forgotten
cancel_edit_keeping_buffer(a) == [a EXCEPT !.settings_editing = FALSE]

\* the Esc arm of the editing branch
cancel_edit(a) ==
    [a EXCEPT !.settings_editing = FALSE, !.settings_edit_buffer = <<>>]

\* the Enter arm of the editing branch
submit_edit(a) ==
    LET field == SettingsFields[a.settings_selected + 1]
        value == str(a.settings_edit_buffer)
        r == set_settings_value(a, field, value)
        shown == IF r.ok THEN set_status(r.app, "Updated " \o label(field))
                 ELSE set_error(r.app, to_string(r.err))
    IN  [shown EXCEPT !.settings_editing = FALSE, !.settings_edit_buffer = <<>>]

\* the Enter and space arm of the browsing branch entering edit mode on
\* every field, with an empty buffer
activate_field_editing_any(a) ==
    [app |-> [a EXCEPT !.settings_editing = TRUE, !.settings_edit_buffer = <<>>],
     result |-> Ok]

\* the Enter and space arm of the browsing branch
activate_field(a) ==
    LET field == SettingsFields[a.settings_selected + 1]
    IN  IF IsSome(get_settings_options(field))
        THEN LET r == cycle_settings_option(a, field)
             IN  IF r.ok
                 THEN [app |-> set_status(r.app, "Updated " \o label(field)),
                       result |-> Ok]
                 ELSE [app |-> r.app, result |-> Err(r.err)]
        ELSE [app |-> [a EXCEPT !.settings_editing = TRUE,
                                !.settings_edit_buffer =
                                    chars(get_settings_value(a, field))],
              result |-> Ok]

handle_settings_input(a, key) ==
    LET done(b) == [app |-> b, result |-> Ok]
    IN  IF a.settings_editing
        THEN CASE key.code = "Esc" -> done(cancel_edit(a))
               [] key.code = "Enter" -> done(submit_edit(a))
               [] key.code = "Char" ->
                     done([a EXCEPT !.settings_edit_buffer = Append(@, key.c)])
               [] key.code = "Backspace" ->
                     done([a EXCEPT !.settings_edit_buffer =
                                        SubSeq(@, 1, saturating_sub(Len(@), 1))])
               [] OTHER -> done(a)
        ELSE CASE key.code = "Up" \/ IsChar(key, "k") ->
                     done(IF a.settings_selected > 0
                          THEN [a EXCEPT !.settings_selected = @ - 1] ELSE a)
               [] key.code = "Down" \/ IsChar(key, "j") ->
                     done(IF a.settings_selected < Len(SettingsFields) - 1
                          THEN [a EXCEPT !.settings_selected = @ + 1] ELSE a)
               [] key.code = "Enter" \/ IsChar(key, " ") -> activate_field(a)
               [] key.code = "Esc" \/ IsChar(key, "q") ->
                     done(clear_messages([a EXCEPT !.mode = "Main"]))
               [] OTHER -> done(a)

----------------------------------------------------------------------------
(* tui/mod.rs: run and the event loop run_app, one key event a step.        *)

\* the errors of the terminal in the loop, of restoring it, and of Config::save
TerminalError == Other("terminal error")
RestoreError == Other("restoring the terminal failed")
SaveError == Other("Failed to write config file")

\* the keys a session presses in each mode; Tab stands for the keys no
\* handler knows, and one character for the characters a handler treats alike
MainKeys ==
    { Key(code) : code \in {"Up", "Down", "Home", "End", "Enter", "Esc", "Tab"} }
        \cup { Char(c) : c \in {"k", "j", "i", "/", "s", "r", "d"} }

InputKeys ==
    { Key(code) : code \in {"Esc", "Enter", "Backspace", "Delete", "Left",
                            "Right", "Home", "End", "Tab"} }
        \cup { Char(c) : c \in InputChars }

JobDetailKeys == { Key(code) : code \in {"Esc", "Backspace", "Enter", "Tab"} }

SettingsKeys ==
    { Key(code) : code \in {"Up", "Down", "Enter", "Esc", "Backspace", "Tab"} }
        \cup { Char(c) : c \in {"k", "j", " "} \cup BufferChars }

\* the key makes the settings screen apply a value
Applies(a, key) ==
    IF a.settings_editing THEN key.code = "Enter"
    ELSE /\ key.code = "Enter" \/ IsChar(key, " ")
         /\ IsSome(get_settings_options(SettingsFields[a.settings_selected + 1]))

\* the session types a text only up to its bound and only while it can still
\* submit it, and it submits only within the bounds of the run
Pressed(a, key) ==
    CASE a.mode = "Input" /\ key.code = "Char" ->
            Len(a.input) < MaxInput /\ counts.runs < MaxRuns
      [] a.mode = "Input" /\ key.code = "Enter" /\ a.input # <<>> ->
            counts.runs < MaxRuns
      [] a.mode = "Settings" /\ a.settings_editing /\ key.code = "Char" ->
            /\ Len(a.settings_edit_buffer) < MaxBuffer
            /\ key.c \in BufferChars
            /\ counts.applied < MaxApplied
      [] a.mode = "Settings" /\ Applies(a, key) -> counts.applied < MaxApplied
      [] OTHER -> TRUE

\* the rest of run once run_app has returned r: the terminal is restored,
\* then `if app.config_changed { *config = app.config.clone(); config.save()?; }`
\* and r is returned, which drops the App; each of the calls can fail
run_returns(a, r) ==
    /\ pc' = "ended"
    /\ app' = None
    /\ \/ \* restoring the terminal fails: `?` returns before the save
          result' = Some(Err(RestoreError)) /\ UNCHANGED config_file
       \/ /\ ~a.config_changed
          /\ result' = Some(r)
          /\ UNCHANGED config_file
       \/ /\ a.config_changed
          /\ \/ /\ config_file' = [content |-> a.config,
                                    saves |-> config_file.saves + 1]
                /\ result' = Some(r)
             \/ \* config.save() fails
                result' = Some(Err(SaveError)) /\ UNCHANGED config_file

\* the end of a turn of the loop: `if app.should_quit { return Ok(()) }`
turn_ends(a) ==
    IF a.should_quit THEN run_returns(a, Ok)
    ELSE pc' = "loop" /\ app' = a /\ UNCHANGED <<result, config_file>>

\* the last instant a stored row or the last run's job recorded
RECURSIVE latest(_, _)
latest(st, ids) ==
    IF ids = {} THEN 0
    ELSE LET i == CHOOSE k \in ids : TRUE
             rest == latest(st, ids \ {i})
         IN  IF st[i].updated_at > rest THEN st[i].updated_at ELSE rest

\* the state once run has built the App and loaded the jobs
SessionInit ==
    /\ kind = "tui"
    /\ api_key \in {None, Some("key")}
    /\ store = OldStore
    /\ job = None
    /\ pc = "loop"
    /\ resp = None
    /\ err = None
    /\ result = None
    /\ files = {"./banana-output/bn_0000000a_0.png"}
    /\ app = load_jobs(new_app(LoadedConfig), store)
    /\ config_file = [content |-> LoadedConfig, saves |-> 0]
    /\ counts = [applied |-> 0, runs |-> 0]

\* the global quit shortcuts run_app tests before it dispatches the key:
\* Ctrl-C, or `q` outside Input and Settings
global_quit(a, key) ==
    \/ IsChar(key, "c") /\ key.ctrl
    \/ IsChar(key, "q") /\ a.mode # "Input" /\ a.mode # "Settings"

\* `match app.mode { .. }` of run_app: the App after the mode's handler, with
\* no call of the store failing
dispatch(a, st, key) ==
    CASE a.mode = "Main" -> handle_main_input(a, st, key, 0).app
      [] a.mode = "Input" -> handle_input_mode(a, key).app
      [] a.mode = "JobDetail" -> handle_job_detail_input(a, key)
      [] a.mode = "Settings" -> handle_settings_input(a, key).app

\* a global quit shortcut was pressed: run_app returns Ok(())
GlobalQuit ==
    /\ pc = "loop"
    /\ \E key \in {CtrlC, Char("q")} : global_quit(app, key)
    /\ run_returns(app, Ok)
    /\ UNCHANGED <<kind, job, store, api_key, resp, err, files, counts>>

\* terminal.draw, poll or read fails: run_app returns the error
TerminalFails ==
    /\ pc = "loop"
    /\ run_returns(app, Err(TerminalError))
    /\ UNCHANGED <<kind, job, store, api_key, resp, err, files, counts>>

\* how often handle_main_input calls the store for the key
store_calls(key) ==
    CASE IsChar(key, "r") -> 1
      [] IsChar(key, "d") -> 2
      [] OTHER -> 0

\* a turn of the loop in Main mode on one of `keys`
HandleMainInputWith(keys) ==
    /\ pc = "loop"
    /\ app.mode = "Main"
    /\ \E key \in keys :
       \E db_fail \in 0..store_calls(key) :
          LET h == handle_main_input(app, store, key, db_fail)
          IN  /\ store' = h.store
              /\ IF h.result.ok THEN turn_ends(h.app)
                 ELSE run_returns(h.app, h.result)
    /\ UNCHANGED <<kind, job, api_key, resp, err, files, counts>>

HandleMainInput == HandleMainInputWith(MainKeys)

\* Enter on a prompt goes on into generate_image up to the job it builds
HandleInputMode ==
    /\ pc = "loop"
    /\ app.mode = "Input"
    /\ \E key \in InputKeys :
          /\ Pressed(app, key)
          /\ LET h == handle_input_mode(app, key)
             IN  CASE h.outcome = "ok" ->
                         /\ turn_ends(h.app)
                         /\ UNCHANGED <<job, resp, err, counts>>
                   [] h.outcome = "panic" ->
                         /\ pc' = "panicked"
                         /\ UNCHANGED <<app, job, resp, err, result, config_file,
                                        counts>>
                   [] h.outcome = "generate" ->
                         \E id \in JobIds \ {OldId} :
                            LET config == h.app.config
                                params ==
                                    with_model(
                                        with_size(
                                            with_aspect_ratio(
                                                GenerateParams_new(h.prompt),
                                                config.defaults.aspect_ratio),
                                            config.defaults.size),
                                        config.api.model)
                                now == Utc_now(latest(store, DOMAIN store))
                            IN  /\ app' = [set_status(h.app,
                                               "Generating: " \o str(h.prompt)
                                                   \o "...")
                                           EXCEPT !.generating = TRUE]
                                /\ job' = new_generate(id, params, now)
                                /\ pc' = "created"
                                /\ resp' = None
                                /\ err' = None
                                /\ counts' = [counts EXCEPT !.runs = @ + 1]
                                /\ UNCHANGED <<result, config_file>>
    /\ UNCHANGED <<kind, store, api_key, files>>

HandleJobDetailInput ==
    /\ pc = "loop"
    /\ app.mode = "JobDetail"
    /\ \E key \in JobDetailKeys :
          LET a == handle_job_detail_input(app, key)
          IN  turn_ends(a)
    /\ UNCHANGED <<kind, job, store, api_key, resp, err, files, counts>>

HandleSettingsInput ==
    /\ pc = "loop"
    /\ app.mode = "Settings"
    /\ \E key \in SettingsKeys :
          /\ Pressed(app, key)
          /\ LET h == handle_settings_input(app, key)
             IN  /\ counts' = IF Applies(app, key) /\ h.result.ok
                              THEN [counts EXCEPT !.applied = @ + 1] ELSE counts
                 /\ IF h.result.ok THEN turn_ends(h.app)
                    ELSE run_returns(h.app, h.result)
    /\ UNCHANGED <<kind, job, store, api_key, resp, err, files>>

\* generate_image has returned into handle_input_mode: `.await?`, then the
\* end of the turn
GenerateReturns ==
    /\ pc = "returned"
    /\ IF Unwrap(result).ok
       THEN IF app.should_quit THEN run_returns(app, Ok)
            ELSE pc' = "loop" /\ result' = None /\ UNCHANGED <<app, config_file>>
       ELSE run_returns(app, Unwrap(result))
    /\ UNCHANGED <<kind, job, store, api_key, resp, err, files, counts>>

\* what the service answers and how a download fails in a session
SessionResponses ==
    { [candidates |-> None],
      [candidates |-> Some(<<BigCandidate(1)>>)],
      [candidates |-> Some(<<Refusing>>)] }

SessionServiceErrors == { ApiError("quota exceeded") }

SessionDownloadErrors == { Other("Failed to decode base64 image") }

SessionNext ==
    \/ GlobalQuit
    \/ TerminalFails
    \/ HandleMainInput
    \/ HandleInputMode
    \/ HandleJobDetailInput
    \/ HandleSettingsInput
    \/ InsertJob
    \/ FromConfig
    \/ SetRunning
    \/ ServiceRespondsWith(SessionResponses)
    \/ ServiceFailsWith(SessionServiceErrors)
    \/ ProcessResponse
    \/ ProcessFailed
    \/ TuiDownloadWith(SessionDownloadErrors)
    \/ TuiFinalize
    \/ GenerateReturns

SessionSpec == SessionInit /\ [][SessionNext]_vars

----------------------------------------------------------------------------
(* Claims about the interactive session.                                    *)

\* the App exists: run has not returned
Alive == pc # "ended"

(* C17: whatever keys the session has handled, navigation and deletions in  *)
(* Main mode among them, the selection index lies within [0, len - 1] when  *)
(* the job list is non-empty and is 0 when it is empty.                     *)
C17_SelectionWithinList ==
    Alive => IF app.jobs = <<>> THEN app.selected_job = 0
             ELSE app.selected_job \in 0..(Len(app.jobs) - 1)

\* the older of two listed jobs, selected at the end of the list, was deleted
C17_Witness ==
    /\ pc = "loop"
    /\ app.status_message = Some("Deleted job: bn_0000000a")
    /\ Len(app.jobs) = 1
    /\ app.jobs[1].id = "bn_0000000b"
    /\ app.selected_job = 0

\* the mode changes the claim allows
AllowedModeChanges ==
    { <<"Main", "Input">>, <<"Input", "Main">>,
      <<"Main", "JobDetail">>, <<"JobDetail", "Main">>,
      <<"Main", "Settings">>, <<"Settings", "Main">> }

(* C18: the session starts in Main mode, and every change of mode is one of *)
(* Main <-> Input, Main <-> JobDetail, Main <-> Settings; the change from   *)
(* Settings to Main happens only while browsing, never while editing.       *)
C18_ModeChanges ==
    /\ app.mode = "Main"
    /\ [][(Alive /\ Alive' /\ app'.mode # app.mode)
             => /\ <<app.mode, app'.mode>> \in AllowedModeChanges
                /\ (app.mode = "Settings" => ~app.settings_editing)]_vars

\* back in Main from the settings screen, after an edit of the output
\* directory was typed and submitted
C18_Witness ==
    /\ pc = "loop"
    /\ app.mode = "Main"
    /\ app.settings_selected = 3
    /\ app.config.output.directory = "oq"
    /\ app.status_message = None

\* a field is edited only on the settings screen and only when it is the
\* output directory, the one field without options, whose Config::set arm
\* has no failing case
EditingOnlyOutputDirectory ==
    (Alive /\ app.settings_editing)
        => /\ app.mode = "Settings"
           /\ SettingsFields[app.settings_selected + 1] = "OutputDirectory"

\* the step in which run returns with the terminal restored and no failed save
EndsRestored ==
    /\ pc # "ended"
    /\ pc' = "ended"
    /\ result' \notin { Some(Err(RestoreError)), Some(Err(SaveError)) }

----------------------------------------------------------------------------
(* A session beside other processes on the same database file: a batch run  *)
(* that finishes its job (cli/commands/generate.rs) and `jobs delete`       *)
(* (cli/commands/jobs.rs).                                                  *)

\* the id and the row of the other process's run, in flight when the session
\* starts
OtherId == "bn_0000000c"

OtherRow == set_running(new_generate(OtherId, GenerateParams, StartTime), 0)

\* the job the other run writes back once the service has refused it
OtherFinished == set_failed(OtherRow, to_string(ApiError("quota exceeded")))

SharedInit ==
    /\ kind = "tui"
    /\ api_key \in {None, Some("key")}
    /\ store = insert_job(OldStore, OtherRow)
    /\ job = None
    /\ pc = "loop"
    /\ resp = None
    /\ err = None
    /\ result = None
    /\ files = {"./banana-output/bn_0000000a_0.png"}
    /\ app = load_jobs(new_app(LoadedConfig), store)
    /\ config_file = [content |-> LoadedConfig, saves |-> 0]
    /\ counts = [applied |-> 0, runs |-> 0]

\* the other run's `db.update_job(&job)?` after job.set_failed(..)
OtherRunFinishes ==
    /\ pc # "ended"
    /\ store' = update_job(store, OtherFinished)
    /\ UNCHANGED <<config_file, counts, kind, pc, job, api_key, resp, err, result,
                   files, app>>

\* `jobs delete <job_id>` in another process
JobsDelete ==
    /\ pc # "ended"
    /\ \E job_id \in DOMAIN store : store' = delete_job(store, job_id)
    /\ UNCHANGED <<config_file, counts, kind, pc, job, api_key, resp, err, result,
                   files, app>>

\* the keys of a session that stays on the job list and the detail view
ListKeys == MainKeys \ {Char("i"), Char("/"), Char("s")}

SharedNext ==
    \/ GlobalQuit
    \/ TerminalFails
    \/ HandleMainInputWith(ListKeys)
    \/ HandleJobDetailInput
    \/ OtherRunFinishes
    \/ JobsDelete

SharedSpec == SharedInit /\ [][SharedNext]_vars


----------------------------------------------------------------------------
(* db.rs under the calls of its callers: insert_job and update_job of the   *)
(* runs, delete_job of the jobs command and of the session.                 *)

\* the jobs the callers hold: as constructed, running, and failed
HeldJobs ==
    UNION { LET queued == new_generate(id, GenerateParams, StartTime)
                running == set_running(queued, 0)
            IN  { queued, running, set_failed(running, "No images generated") }
            : id \in JobIds \cup {OtherId} }

StoreInit ==
    /\ kind = "generate"
    /\ api_key = None
    /\ store \in { OldStore, delete_job(OldStore, OldId) }
    /\ job = None
    /\ pc = "store"
    /\ resp = None
    /\ err = None
    /\ result = None
    /\ files = {}
    /\ app = new_app(LoadedConfig)
    /\ config_file = [content |-> LoadedConfig, saves |-> 0]
    /\ counts = [applied |-> 0, runs |-> 0]

\* db.insert_job(&job) of a job as constructed; the PRIMARY KEY refuses a
\* stored id
StoreInsert ==
    /\ pc = "store"
    /\ \E j \in HeldJobs :
          /\ j.status = Queued
          /\ IF j.id \in DOMAIN store
             THEN /\ store' = store
                  /\ result' = Some([call |-> "insert_job", id |-> j.id,
                                     before |-> store, ret |-> Err(StoreError)])
             ELSE /\ store' = insert_job(store, j)
                  /\ result' = Some([call |-> "insert_job", id |-> j.id,
                                     before |-> store, ret |-> Ok])
    /\ UNCHANGED <<config_file, counts, kind, pc, job, api_key, resp, err, files,
                   app>>

\* db.update_job(&job)
StoreUpdate ==
    /\ pc = "store"
    /\ \E j \in HeldJobs :
          /\ store' = update_job(store, j)
          /\ result' = Some([call |-> "update_job", id |-> j.id,
                             before |-> store, ret |-> Ok])
    /\ UNCHANGED <<config_file, counts, kind, pc, job, api_key, resp, err, files,
                   app>>

\* db.delete_job(id)
StoreDelete ==
    /\ pc = "store"
    /\ \E id \in JobIds \cup {OtherId} :
          /\ store' = delete_job(store, id)
          /\ result' = Some([call |-> "delete_job", id |-> id, before |-> store,
                             ret |-> delete_job_returns(store, id)])
    /\ UNCHANGED <<config_file, counts, kind, pc, job, api_key, resp, err, files,
                   app>>

StoreNext == StoreInsert \/ StoreUpdate \/ StoreDelete

StoreSpec == StoreInit /\ [][StoreNext]_vars

\* the rows of `after` other than id are the rows of `before` other than id
OthersKept(before, after, id) ==
    /\ DOMAIN after \ {id} = DOMAIN before \ {id}
    /\ \A i \in DOMAIN after \ {id} : after[i] = before[i]

----------------------------------------------------------------------------
(* The batch commands from their arguments on: cli/commands/generate.rs run *)
(* and cli/commands/edit.rs run with the prompt of the command line.        *)

EntryInit ==
    /\ kind \in {"generate", "edit"}
    /\ api_key \in {None, Some("key")}
    /\ store = OldStore
    /\ job = None
    /\ pc = "args"
    /\ resp = None
    /\ err = None
    /\ result = None
    /\ files = {"./banana-output/bn_0000000a_0.png"}
    /\ app = new_app(LoadedConfig)
    /\ config_file = [content |-> LoadedConfig, saves |-> 0]
    /\ counts = [applied |-> 0, runs |-> 0]

\* run builds the params from args.prompt, a String of the command line
\* that clap requires to be present, and constructs the job
BatchRunStarts ==
    /\ pc = "args"
    /\ \E prompt \in Strings(MaxPromptChars), id \in JobIds :
          LET params == with_model(
                            with_size(
                                with_aspect_ratio(GenerateParams_new(prompt),
                                                  default_aspect_ratio),
                                default_size),
                            default_model)
          IN  job' = IF kind = "edit"
                     THEN new_edit(id, with_reference_image(params, "cmVm",
                                                            "image/png"),
                                   StartTime, "/tmp/ref.png")
                     ELSE new_generate(id, params, StartTime)
    /\ pc' = "created"
    /\ UNCHANGED <<config_file, counts, kind, store, api_key, resp, err, result,
                   files, app>>

EntryNext ==
    \/ BatchRunStarts
    \/ InsertJob
    \/ FromConfig
    \/ SetRunning
    \/ ServiceRespondsWith(SessionResponses)
    \/ ServiceFailsWith(SessionServiceErrors)
    \/ ProcessResponse
    \/ ProcessFailed
    \/ BatchDownload
    \/ BatchFinalize

EntrySpec == EntryInit /\ [][EntryNext]_vars

\* the stored jobs and the job of the run have a prompt
PromptsAreNonEmpty ==
    /\ \A i \in DOMAIN store : store[i].params.prompt # <<>>
    /\ (job # None => job.params.prompt # <<>>)

(* C26: every job a batch generate or a batch edit constructs and inserts   *)
(* into the store has a non-empty prompt, and no run goes on for an empty   *)
(* prompt.                                                                  *)
C26_BatchPromptsAreNonEmpty == PromptsAreNonEmpty

\* C26 for the interactive submit
SessionPromptsAreNonEmpty == Alive => PromptsAreNonEmpty

----------------------------------------------------------------------------
(* Claims about updated_at.                                                 *)

(* C24: every step of a run that changes the job, by a status setter, by    *)
(* add_image or by the download phase setting an image's persisted location *)
(* and clearing its inline payload, refreshes updated_at to a later instant *)
(* of the clock, and updated_at is never smaller than created_at.           *)
C24_MutationsRefreshUpdatedAt ==
    /\ [](job.updated_at >= job.created_at)
    /\ [][job' # job => job'.updated_at > job.updated_at]_vars

\* C24 for the steps before and after the download phase
SettersRefreshUpdatedAt ==
    /\ [](job.updated_at >= job.created_at)
    /\ [][(job' # job /\ pc # "processed")
             => job'.updated_at > job.updated_at]_vars

----------------------------------------------------------------------------
(* Claims about a session's runs and their errors.                          *)

\* generate_image has been entered and has not returned
InFlight ==
    pc \in {"created", "inserted", "client", "calling", "responded", "processed",
            "process_err", "finalize"}

C23_ErrorsAreShownNotFatal ==
    /\ (pc = "returned"
          => /\ Unwrap(result).ok
             /\ app.mode = "Main"
             /\ ~app.should_quit
             /\ (job.status.tag = "Failed"
                   => app.error_message = Some(job.status.error))
             /\ ((app.config.output.auto_download
                      /\ Unmaterialised(job.images) # {})
                   => IsSome(app.error_message)))
    /\ (pc = "ended" => result # Some(Err(StoreError)))

\* C23 for the errors that are not the store's
ErrorsButTheStoresAreShown ==
    (pc = "returned" /\ Unwrap(result).ok)
        => /\ app.mode = "Main"
           /\ ~app.should_quit
           /\ (job.status.tag = "Failed"
                 => app.error_message = Some(job.status.error))
           /\ ((app.config.output.auto_download
                    /\ Unmaterialised(job.images) # {})
                 => IsSome(app.error_message))

----------------------------------------------------------------------------
(* Claims about the settings screen and the prompt input.                   *)

SelectedField == SettingsFields[app.settings_selected + 1]

SelectedOptions == Unwrap(get_settings_options(SelectedField))

\* the session after the cancel key, Esc, in its settings screen
AfterCancel == handle_settings_input(app, Key("Esc")).app

(* C29: the step that activates a free-text field enters editing with the   *)
(* buffer equal to the field's current value; no step that stays in editing *)
(* (a character, a backspace, a key the handler ignores) changes the        *)
(* configuration or the config-changed flag, and neither does the step of   *)
(* activation; and cancel in any state of editing leaves the session in     *)
(* Settings, browsing, with the buffer empty and the configuration and the  *)
(* flag unchanged: so they are as they were before editing began.           *)
C29_CancelDiscardsEdit ==
    [][(Alive /\ Alive' /\ pc = "loop" /\ app.mode = "Settings")
          => /\ ((~app.settings_editing /\ app'.settings_editing)
                    => /\ ~IsSome(get_settings_options(SelectedField))
                       /\ app'.settings_edit_buffer
                            = chars(get_settings_value(app, SelectedField))
                       /\ app'.config = app.config
                       /\ app'.config_changed = app.config_changed)
             /\ ((app.settings_editing /\ app'.settings_editing)
                    => /\ app'.config = app.config
                       /\ app'.config_changed = app.config_changed)
             /\ (app.settings_editing
                    => /\ AfterCancel.mode = "Settings"
                       /\ ~AfterCancel.settings_editing
                       /\ AfterCancel.settings_edit_buffer = <<>>
                       /\ AfterCancel.config = app.config
                       /\ AfterCancel.config_changed = app.config_changed)]_vars

\* the output directory is being edited: a character was typed after the
\* loaded value, nothing was applied
C29_Witness ==
    /\ pc = "loop"
    /\ app.mode = "Settings"
    /\ app.settings_editing
    /\ app.settings_edit_buffer = <<"o", "q">>
    /\ app.config = LoadedConfig
    /\ ~app.config_changed

\* the handler's result for the cancel key and for the submit key
OnCancel == handle_input_mode(app, Key("Esc"))

OnSubmit == handle_input_mode(app, Key("Enter"))

(* C30: in every state of Input mode, cancel gives Main mode with the input *)
(* buffer empty and goes into no run; submit with an empty buffer changes   *)
(* nothing of the session and goes into no run; submit with a non-empty     *)
(* buffer gives Main mode with the buffer empty and goes into               *)
(* generate_image with the buffer's content as the prompt. A step from the  *)
(* loop into a run is such a submit: it starts one run, of a Generate job,  *)
(* Queued, with that prompt and with the aspect ratio, size and model of    *)
(* the in-memory configuration; a step from Input mode back to the loop     *)
(* starts none.                                                             *)
C30_InputCancelAndSubmit ==
    [][/\ ((Alive /\ pc = "loop" /\ app.mode = "Input")
             => /\ OnCancel.outcome = "ok"
                /\ OnCancel.app.mode = "Main"
                /\ OnCancel.app.input = <<>>
                /\ IF app.input = <<>>
                   THEN OnSubmit = [app |-> app, outcome |-> "ok"]
                   ELSE /\ OnSubmit.outcome = "generate"
                        /\ OnSubmit.prompt = app.input
                        /\ OnSubmit.app.mode = "Main"
                        /\ OnSubmit.app.input = <<>>)
       /\ ((pc = "loop" /\ pc' = "created")
             => /\ app.mode = "Input"
                /\ app.input # <<>>
                /\ app'.mode = "Main"
                /\ app'.input = <<>>
                /\ counts'.runs = counts.runs + 1
                /\ job'.action = [type |-> "Generate"]
                /\ job'.status = Queued
                /\ job'.params.prompt = app.input
                /\ job'.params.aspect_ratio = app.config.defaults.aspect_ratio
                /\ job'.params.size = app.config.defaults.size
                /\ job'.params.model = app.config.api.model)
       /\ ((pc = "loop" /\ pc' = "loop" /\ app.mode = "Input")
             => /\ job' = job
                /\ counts'.runs = counts.runs
                /\ (app'.mode = "Main" => app'.input = <<>>))]_vars

\* a submitted prompt of one two-byte character has started its run with
\* the size the settings screen applied before
C30_Witness ==
    /\ pc = "created"
    /\ app.mode = "Main"
    /\ app.input = <<>>
    /\ counts.runs = 1
    /\ job.params.prompt = <<"E">>
    /\ job.params.size = "2K"
    /\ job.status = Queued

\* the configurations a session can load: the file is not validated, and
\* `config set api.model` takes any text
LoadedConfigs ==
    { LoadedConfig, [LoadedConfig EXCEPT !.api.model = "gemini-2.0-flash"] }

CycleInit ==
    /\ kind = "tui"
    /\ api_key \in {None, Some("key")}
    /\ store = OldStore
    /\ job = None
    /\ pc = "loop"
    /\ resp = None
    /\ err = None
    /\ result = None
    /\ files = {"./banana-output/bn_0000000a_0.png"}
    /\ \E config \in LoadedConfigs :
          /\ app = load_jobs(new_app(config), store)
          /\ config_file = [content |-> config, saves |-> 0]
    /\ counts = [applied |-> 0, runs |-> 0]

\* the keys of a session that moves to a field with options and activates
\* it, as many times as the field has options
CycleKeys ==
    { Key("Up"), Key("Down"), Key("Enter"), Char("k"), Char("j"), Char(" ") }

\* a turn of the loop in Settings mode on one of CycleKeys
ActivateRepeatedly ==
    /\ pc = "loop"
    /\ app.mode = "Settings"
    /\ \E key \in CycleKeys :
          LET options == get_settings_options(SettingsFields[app.settings_selected + 1])
              activates == key.code = "Enter" \/ IsChar(key, " ")
              h == handle_settings_input(app, key)
          IN  /\ IF activates
                 THEN IsSome(options) /\ counts.applied < Len(Unwrap(options))
                 ELSE counts.applied = 0
              /\ counts' = IF activates /\ h.result.ok
                           THEN [counts EXCEPT !.applied = @ + 1] ELSE counts
              /\ IF h.result.ok THEN turn_ends(h.app)
                 ELSE run_returns(h.app, h.result)
    /\ UNCHANGED <<kind, job, store, api_key, resp, err, files>>

CycleNext ==
    \/ HandleMainInputWith({Char("s")})
    \/ ActivateRepeatedly

CycleSpec == CycleInit /\ [][CycleNext]_vars

\* a step that activates the selected field, which has options: it stays in
\* browsing, and a value of the option list is followed by the next option,
\* the last one by the first
ActivationSetsNextOption ==
    (Alive /\ Alive' /\ counts'.applied = counts.applied + 1)
        => LET current == get_settings_value(app, SelectedField)
               n == Len(SelectedOptions)
           IN  /\ ~app'.settings_editing
               /\ app'.settings_selected = app.settings_selected
               /\ \A i \in 1..n :
                     SelectedOptions[i] = current
                        => get_settings_value(app', SelectedField)
                              = SelectedOptions[(i % n) + 1]

\* the selected field was activated as many times as it has options
CycleCompleted ==
    /\ Alive
    /\ app.mode = "Settings"
    /\ IsSome(get_settings_options(SelectedField))
    /\ counts.applied = Len(SelectedOptions)

(* C28: activating a field with an option set stays in browsing and sets    *)
(* the field to the option that follows its current value in the option     *)
(* list, wrapping from the last to the first; and after as many activations *)
(* as the field has options the configuration is the one the session        *)
(* loaded, as it was before the first activation.                           *)
C28_ActivationCycles ==
    /\ [][ActivationSetsNextOption]_vars
    /\ [](CycleCompleted => app.config = config_file.content)

\* C28 for the fields whose loaded value is one of the options
CyclesFromAnOption ==
    /\ [][ActivationSetsNextOption]_vars
    /\ []((/\ CycleCompleted
           /\ get_settings_value(new_app(config_file.content), SelectedField)
                 \in Range(SelectedOptions))
             => app.config = config_file.content)

----------------------------------------------------------------------------
(* Claims about the session beside other processes.                         *)

(* C21: the job shown in JobDetail is the copy taken from the session's job *)
(* list in the step from Main to JobDetail: that step captures the selected *)
(* entry of the list, and no step that stays in JobDetail, a key that does  *)
(* not leave or an update or delete of the row by another process, changes  *)
(* the captured job.                                                        *)
C21_DetailShowsCapturedJob ==
    [][(Alive /\ Alive')
          => /\ ((app.mode = "JobDetail" /\ app'.mode = "JobDetail")
                    => app'.current_job = app.current_job)
             /\ ((app.mode = "Main" /\ app'.mode = "JobDetail")
                    => /\ app.selected_job < Len(app.jobs)
                       /\ app'.current_job
                            = Some(app.jobs[app.selected_job + 1]))]_vars

\* the detail view shows the other run's job as running after the list was
\* refreshed, while the row is gone from the store
C21_Witness ==
    /\ pc = "loop"
    /\ app.mode = "JobDetail"
    /\ app.status_message = Some("Refreshed job list")
    /\ app.current_job = Some(OtherRow)
    /\ OtherId \notin DOMAIN store

(* C31: after every reload of the job list, by refresh, by delete or at the *)
(* end of a generation, also when other processes removed records since the *)
(* last load, the selection index lies within [0, len - 1] if the reloaded  *)
(* list is non-empty and is 0 if it is empty.                               *)
C31_SelectionAfterReload ==
    [][(Alive /\ Alive' /\ app'.jobs # app.jobs)
          => IF app'.jobs = <<>> THEN app'.selected_job = 0
             ELSE app'.selected_job \in 0..(Len(app'.jobs) - 1)]_vars

\* C31 for the reloads that give a non-empty list
SelectionWithinNonEmptyReload ==
    [][(Alive /\ Alive' /\ app'.jobs # app.jobs /\ app'.jobs # <<>>)
          => app'.selected_job \in 0..(Len(app'.jobs) - 1)]_vars

\* the keys the detail view's help line and handler name for closing it
ClosingKeys == { Key("Esc"), Char("q"), Key("Backspace") }

\* a turn of the loop on `key` closes the detail view: the key is no global
\* quit shortcut, and its handler leaves Main mode, no captured job and the
\* quit flag unset
ClosesDetail(key) ==
    /\ ~global_quit(app, key)
    /\ LET a == handle_job_detail_input(app, key)
       IN  /\ a.mode = "Main"
           /\ a.current_job = None
           /\ ~a.should_quit

(* C32: in JobDetail mode each of the keys Esc, q and Backspace closes the  *)
(* detail view: the mode becomes Main, the captured job is dropped and the  *)
(* event loop does not end.                                                 *)
C32_ClosingKeysCloseDetail ==
    (pc = "loop" /\ app.mode = "JobDetail")
        => \A key \in ClosingKeys : ClosesDetail(key)

\* C32 for Esc and Backspace
EscAndBackspaceCloseDetail ==
    (pc = "loop" /\ app.mode = "JobDetail")
        => \A key \in ClosingKeys \ {Char("q")} : ClosesDetail(key)

\* the keys of all modes
AllKeys ==
    MainKeys \cup InputKeys \cup JobDetailKeys \cup SettingsKeys
        \cup {Char("q"), CtrlC}

\* at the top of the loop the quit flag is unset; only q or Esc, dispatched
\* in Main mode, sets it; Ctrl-C is a global quit shortcut in every mode
QuitFlagAndCtrlC ==
    pc = "loop"
        => /\ ~app.should_quit
           /\ global_quit(app, CtrlC)
           /\ \A key \in AllKeys :
                 dispatch(app, store, key).should_quit
                    => /\ app.mode = "Main"
                       /\ IsChar(key, "q") \/ key.code = "Esc"

\* the session is typing: Input mode, or Settings while editing
Typing ==
    \/ app.mode = "Input"
    \/ app.mode = "Settings" /\ app.settings_editing

\* the step ends the loop by Ctrl-C or by a failure of the terminal
EndsByCtrlCOrTerminal ==
    /\ pc' = "ended"
    /\ result' \in { Some(Ok), Some(Err(TerminalError)), Some(Err(RestoreError)),
                      Some(Err(SaveError)) }

(* C33: the loop never takes a turn with the quit flag set, so it ends in   *)
(* the tick that sets the flag; only q or Esc in Main mode sets the flag;   *)
(* Ctrl-C ends the loop from every mode before the key is dispatched; and   *)
(* no key typed in Input mode or in Settings editing ends the loop: a step  *)
(* taken there goes on with the loop or into generate_image, unless it is   *)
(* Ctrl-C or a failure of the terminal.                                     *)
C33_OnlyQuitKeysEndLoop ==
    [][/\ QuitFlagAndCtrlC
       /\ ((pc = "loop" /\ Typing)
             => \/ pc' \in {"loop", "created"}
                \/ EndsByCtrlCOrTerminal)]_vars

\* C33 for the quit flag and Ctrl-C, and for the keys of Settings editing
QuitLogicHolds ==
    [][/\ QuitFlagAndCtrlC
       /\ ((pc = "loop" /\ app.mode = "Settings" /\ app.settings_editing)
             => \/ pc' = "loop"
                \/ EndsByCtrlCOrTerminal)]_vars

\* the cursor is inside the input, and outside Input mode the input is empty
CursorWithinInput ==
    Alive
        => /\ app.cursor_pos \in 0..byte_len(app.input)
           /\ (app.mode # "Input" => app.input = <<>> /\ app.cursor_pos = 0)

(* C34: in every state of the session the input cursor is between 0 and the *)
(* length of the input and on a character boundary of it, multi-byte        *)
(* characters included, so that no insert or remove at the cursor fails;    *)
(* outside Input mode the input is empty and the cursor is 0.               *)
C34_CursorOnCharBoundary ==
    /\ CursorWithinInput
    /\ Alive => is_char_boundary(app.input, app.cursor_pos)
    /\ pc # "panicked"

(* C35: every path through the session's generate_image that returns Ok to  *)
(* the event loop has reset the busy flag: generating is false when         *)
(* generate_image has returned Ok and whenever the loop renders a frame or  *)
(* polls for input.                                                         *)
C35_LoopSeesBusyFlagReset ==
    /\ (pc = "returned" /\ Unwrap(result).ok) => ~app.generating
    /\ pc = "loop" => ~app.generating

\* the loop takes a turn after a run that failed and was reported
C35_Witness ==
    /\ pc = "loop"
    /\ counts.runs = 1
    /\ job.status.tag = "Failed"
    /\ IsSome(app.error_message)
    /\ ~app.generating

(* C36: in every state of the session the mode is JobDetail exactly when a  *)
(* captured job is present, and Enter in Main mode with an empty job list   *)
(* leaves the mode Main and captures nothing.                               *)
C36_DetailIffCapturedJob ==
    /\ Alive => (app.mode = "JobDetail" <=> IsSome(app.current_job))
    /\ (pc = "loop" /\ app.mode = "Main" /\ app.jobs = <<>>)
          => LET h == handle_main_input(app, store, Key("Enter"), 0)
             IN  /\ h.result.ok
                 /\ h.app.mode = "Main"
                 /\ h.app.current_job = None

\* the session in Main mode with the list emptied by a delete, where Enter
\* is among the keys it reads
C36_Witness ==
    /\ pc = "loop"
    /\ app.mode = "Main"
    /\ app.jobs = <<>>
    /\ app.current_job = None
    /\ Key("Enter") \in MainKeys
    /\ IsSome(app.status_message)

(* C37: in every state of the session the settings cursor indexes one of    *)
(* the eight settings fields; while the settings screen is editing, the     *)
(* selected field is a free-text field, one without an option set, and no   *)
(* step moves the cursor; while it is browsing, the edit buffer is empty.   *)
C37_SettingsCursorAndSubMode ==
    /\ [](Alive
            => /\ Len(SettingsFields) = Cardinality({0, 1, 2, 3, 4, 5, 6, 7})
               /\ app.settings_selected \in 0..(Len(SettingsFields) - 1)
               /\ app.settings_editing
                     => /\ app.mode = "Settings"
                        /\ get_settings_options(SelectedField) = None
               /\ ~app.settings_editing => app.settings_edit_buffer = <<>>)
    /\ [][(Alive /\ Alive' /\ app.settings_editing)
             => app'.settings_selected = app.settings_selected]_vars

\* the settings screen is editing a free-text field and a character was typed
C37_Witness ==
    /\ pc = "loop"
    /\ app.mode = "Settings"
    /\ app.settings_editing
    /\ app.settings_selected > 0
    /\ get_settings_options(SelectedField) = None
    /\ Len(app.settings_edit_buffer) > Len(chars(app.config.output.directory))

====
